---- MODULE Spec2Model ----
(***************************************************************************)
(* Invoice / payment / visit consistency protocol of the billing back      *)
(* office: the Invoice aggregate (models/Invoice.js), the Billing Service  *)
(* (services/billingService.js), the billing routes (routes/billing.js)    *)
(* and the visit routes that call them.                                    *)
(*                                                                         *)
(* Conventions.  JavaScript array indices are 0-based; here an item index  *)
(* is its 1-based position, so the code's  index >= 0 && index < length    *)
(* reads  index >= 1 /\ index <= Len(items).  Money is an integer; the     *)
(* percentage divisions of calculateTotals are exact on every item the     *)
(* model feeds in.  A null Date is NoDate.  Document _ids are positions in *)
(* the collection sequences; 0 is "no reference".                          *)
(***************************************************************************)
EXTENDS Integers, Sequences, FiniteSets, TLC

VARIABLES
    now,        \* the wall clock read by new Date()
    steps,      \* how many requests have been handled (bounded)
    visits,     \* the Visit collection
    invoices,   \* the Invoice collection
    payments,   \* the global Payment collection
    last,       \* the request handled last: what it was and what it returned
    procs,      \* the requests in flight, one slot per concurrent caller
    dispensings,    \* the Dispensing collection
    batches,        \* the MedicineBatch documents of the medicine prescribed
    stockMovements  \* the StockMovement collection

vars == <<now, steps, visits, invoices, payments, last, procs,
          dispensings, batches, stockMovements>>

-----------------------------------------------------------------------------
(* Bounds of the model *)

MaxSteps == 4
MaxTime == 1
MaxItems == 2
MaxLedger == 2
MaxOrders == 1
MaxInvoices == 1
MaxVisits == 1

-----------------------------------------------------------------------------
(* Small helpers *)

NoDate == 0 - 1

Min(a, b) == IF a <= b THEN a ELSE b

RECURSIVE SumAmounts(_)
\* payments.reduce((sum, payment) => sum + payment.amount, 0)
SumAmounts(ps) ==
    IF ps = <<>> THEN 0 ELSE ps[1].amount + SumAmounts(Tail(ps))

RECURSIVE SumTotals(_)
\* items.reduce((sum, item) => sum + item.total, 0)
SumTotals(its) ==
    IF its = <<>> THEN 0 ELSE its[1].total + SumTotals(Tail(its))

Range(s) == {s[i] : i \in DOMAIN s}

-----------------------------------------------------------------------------
(* Master data: patients, the invoice item a caller supplies *)

\* Patient 1 has no insurance provider, patients 2 and 3 have one
\* (hasInsurance = !!(patient.insurance?.provider)).  Patient 3's record
\* names a provider that no InsuranceProvider document carries.
Patients == {1, 2, 3}

HasInsurance(p) == p \in {2, 3}

\* InsuranceProvider.findOne({ name }) of createInvoice finds the provider.
ProviderFound(p) == p # 3

\* The ledger's enum of methods (those the model uses), and the methods a
\* payment request of the model names.  "online" is one of the two methods
\* the payment routes accept that the ledger's enum does not list ('check',
\* 'online'); it goes through the online gateway.
LedgerMethods == {"cash", "credit_card", "insurance"}

RequestMethods == {"cash", "online"}

\* An item as a caller passes it, with the schema defaults filled in.  The
\* callers of the model describe an item by its type, the order routes by
\* the name of what was ordered.
NewItem(type, quantity, unitPrice, discount, discountType, tax, taxType) ==
    [type |-> type, description |-> type,
     quantity |-> quantity, unitPrice |-> unitPrice,
     discount |-> discount, discountType |-> discountType,
     tax |-> tax, taxType |-> taxType,
     total |-> quantity * unitPrice,
     coveredByInsurance |-> FALSE, insuranceApproved |-> FALSE,
     paid |-> FALSE, paidAt |-> NoDate, paymentId |-> 0]

\* A service line as the visit routes build it: quantity 1, total = price.
ServiceItem(type, price) == NewItem(type, 1, price, 0, "fixed", 0, "percentage")

-----------------------------------------------------------------------------
(* Invoice aggregate: calculator and settlement *)

\* A per-item arithmetic that starts from the item's stored total.
ItemAmountsFromTotal(item) ==
    LET Taxed(itemSubtotal, discount, tax) ==
            [subtotal |-> itemSubtotal, discount |-> discount, tax |-> tax,
             total |-> itemSubtotal - discount + tax]
        Discounted(itemSubtotal, discount) ==
            Taxed(itemSubtotal, discount,
                  IF item.taxType = "percentage"
                  THEN ((itemSubtotal - discount) * item.tax) \div 100
                  ELSE item.tax)
        Priced(itemSubtotal) ==
            Discounted(itemSubtotal,
                       IF item.discountType = "percentage"
                       THEN (itemSubtotal * item.discount) \div 100
                       ELSE item.discount)
    IN  Priced(item.total)

\* The per-item arithmetic inside calculateTotals' forEach: itemSubtotal,
\* then the discount, then the tax on what is left, then the total.
ItemAmounts(item) ==
    LET Taxed(itemSubtotal, discount, tax) ==
            [subtotal |-> itemSubtotal, discount |-> discount, tax |-> tax,
             total |-> itemSubtotal - discount + tax]
        Discounted(itemSubtotal, discount) ==
            Taxed(itemSubtotal, discount,
                  IF item.taxType = "percentage"
                  THEN ((itemSubtotal - discount) * item.tax) \div 100
                  ELSE item.tax)
        Priced(itemSubtotal) ==
            Discounted(itemSubtotal,
                       IF item.discountType = "percentage"
                       THEN (itemSubtotal * item.discount) \div 100
                       ELSE item.discount)
    IN  Priced(item.quantity * item.unitPrice)

RECURSIVE SumField(_, _)
SumField(s, f) ==
    IF s = <<>> THEN 0 ELSE s[1][f] + SumField(Tail(s), f)

MarkAllPaid(items, t) ==
    [i \in DOMAIN items |->
        IF items[i].paid THEN items[i]
        ELSE [items[i] EXCEPT !.paid = TRUE, !.paidAt = t]]

\* A settlement without the last rule: a paid invoice whose amountPaid is back
\* at 0 stays paid.
UpdatePaymentStatusNoRevert(inv, t) ==
    IF inv.balanceDue <= 0 /\ inv.amountPaid > 0
    THEN [inv EXCEPT !.status = "paid",
                     !.paidDate = IF inv.paidDate = NoDate THEN t ELSE inv.paidDate,
                     !.items = MarkAllPaid(inv.items, t)]
    ELSE IF inv.amountPaid > 0 /\ inv.balanceDue > 0
    THEN [inv EXCEPT !.status = "partial"]
    ELSE IF inv.status = "pending" /\ inv.dueDate < t
    THEN [inv EXCEPT !.status = "overdue"]
    ELSE inv

\* A settlement that sets the aggregate status and leaves the items' paid
\* flags alone.
UpdatePaymentStatusAggregateOnly(inv, t) ==
    IF inv.balanceDue <= 0 /\ inv.amountPaid > 0
    THEN [inv EXCEPT !.status = "paid",
                     !.paidDate = IF inv.paidDate = NoDate THEN t ELSE inv.paidDate]
    ELSE IF inv.amountPaid > 0 /\ inv.balanceDue > 0
    THEN [inv EXCEPT !.status = "partial"]
    ELSE IF inv.status = "pending" /\ inv.dueDate < t
    THEN [inv EXCEPT !.status = "overdue"]
    ELSE IF inv.amountPaid = 0 /\ inv.status = "paid"
    THEN [inv EXCEPT !.status = "pending", !.paidDate = NoDate]
    ELSE inv

\* invoiceSchema.methods._updatePaymentStatus
UpdatePaymentStatus(inv, t) ==
    IF inv.balanceDue <= 0 /\ inv.amountPaid > 0
    THEN [inv EXCEPT !.status = "paid",
                     !.paidDate = IF inv.paidDate = NoDate THEN t ELSE inv.paidDate,
                     !.items = MarkAllPaid(inv.items, t)]
    ELSE IF inv.amountPaid > 0 /\ inv.balanceDue > 0
    THEN [inv EXCEPT !.status = "partial"]
    ELSE IF inv.status = "pending" /\ inv.dueDate < t
    THEN [inv EXCEPT !.status = "overdue"]
    ELSE IF inv.amountPaid = 0 /\ inv.status = "paid"
    THEN [inv EXCEPT !.status = "pending", !.paidDate = NoDate]
    ELSE inv

\* A ledger sum that leaves refund entries out.
LedgerPaidGross(ps) == SumAmounts(SelectSeq(ps, LAMBDA e : e.amount > 0))

\* amountPaid as calculateTotals derives it from the ledger.
LedgerPaid(ps) == SumAmounts(ps)

\* calculateTotals, the forEach and the three sums it accumulates.
ItemTotals(inv) ==
    LET Summed(amts) ==
            [inv EXCEPT !.items = [i \in DOMAIN inv.items |->
                                      [inv.items[i] EXCEPT !.total = amts[i].total]],
                        !.subtotal = SumField(amts, "subtotal"),
                        !.totalDiscount = SumField(amts, "discount"),
                        !.totalTax = SumField(amts, "tax")]
    IN  Summed([i \in DOMAIN inv.items |-> ItemAmounts(inv.items[i])])

\* calculateTotals, this.totalAmount from the sums just stored.
InvoiceTotal(inv) ==
    [inv EXCEPT !.totalAmount = inv.subtotal - inv.totalDiscount + inv.totalTax]

\* calculateTotals, the insurance coverage: capped by the totals of the items
\* covered and approved when a coverage amount is set.
InsuranceShare(inv) ==
    LET Shared(coverage) ==
            [inv EXCEPT !.coverageAmount = coverage,
                        !.patientResponsibility = inv.totalAmount - coverage]
    IN  Shared(IF inv.coverageAmount # 0
               THEN Min(SumTotals(SelectSeq(inv.items,
                            LAMBDA it : it.coveredByInsurance /\ it.insuranceApproved)),
                        inv.coverageAmount)
               ELSE inv.coverageAmount)

\* calculateTotals, amountPaid from the ledger and balanceDue from it.
LedgerBalance(inv) ==
    LET Paid(amountPaid) ==
            [inv EXCEPT !.amountPaid = amountPaid,
                        !.balanceDue = inv.totalAmount - amountPaid]
    IN  Paid(LedgerPaid(inv.payments))

\* invoiceSchema.methods.calculateTotals
CalculateTotals(inv, t) ==
    UpdatePaymentStatus(LedgerBalance(InsuranceShare(InvoiceTotal(ItemTotals(inv)))), t)

\* An overdue check that never flips the status.
CheckOverdueStatusSkipped(inv, t) == inv

\* invoiceSchema.methods.checkOverdueStatus
CheckOverdueStatus(inv, t) ==
    IF inv.status = "pending" /\ inv.dueDate < t
    THEN [inv EXCEPT !.status = "overdue"]
    ELSE inv

\* A pre-save hook without its overdue check.
PreSaveSettleOnly(inv, modified, t) ==
    IF modified THEN CalculateTotals(inv, t) ELSE inv

\* invoiceSchema.pre('save'): recalculate when items or payments were
\* modified, then the overdue check.
PreSave(inv, modified, t) ==
    CheckOverdueStatus(IF modified THEN CalculateTotals(inv, t) ELSE inv, t)

RECURSIVE SumItemTotals(_, _)
\* The sum of items[i].total over the positions in S.
SumItemTotals(items, S) ==
    IF S = {} THEN 0
    ELSE LET i == CHOOSE x \in S : TRUE
         IN  items[i].total + SumItemTotals(items, S \ {i})

\* A payItems that charges every listed item in range, paid or not.
PayItemsMarkedAgain(inv, itemIndices) ==
    {i \in Range(itemIndices) : i <= Len(inv.items)}

\* The positions payItems' first forEach marks: in range and not yet paid.
PayItemsMarked(inv, itemIndices) ==
    {i \in Range(itemIndices) : i <= Len(inv.items) /\ ~inv.items[i].paid}

\* A ledger entry that does not track the items it covers.
PayItemsRecordUntracked(totalPaid, method, itemIndices) ==
    [amount |-> totalPaid, method |-> method, itemIndices |-> <<>>]

\* The entry payItems appends to the ledger.
PayItemsRecord(totalPaid, method, itemIndices) ==
    [amount |-> totalPaid, method |-> method, itemIndices |-> itemIndices]

\* invoiceSchema.methods.payItems: the invoice after the call and the value
\* returned.  A call that marks only zero-total items returns 0 before the
\* ledger entry is built, with the paid flags already set in memory.
PayItems(inv, itemIndices, method, t) ==
    LET paymentId == Len(inv.payments) + 1
        Recorded(totalPaid, items1) ==
            IF totalPaid = 0
            THEN [inv |-> [inv EXCEPT !.items = items1], ret |-> 0]
            ELSE [inv |-> CalculateTotals(
                             [inv EXCEPT
                                 !.items = [i \in DOMAIN inv.items |->
                                               IF i \in Range(itemIndices)
                                               THEN [items1[i] EXCEPT
                                                        !.paymentId = paymentId]
                                               ELSE items1[i]],
                                 !.payments = Append(inv.payments,
                                     PayItemsRecord(totalPaid, method, itemIndices))],
                             t),
                  ret |-> totalPaid]
        Marked(marked) ==
            Recorded(SumItemTotals(inv.items, marked),
                     [i \in DOMAIN inv.items |->
                         IF i \in marked
                         THEN [inv.items[i] EXCEPT !.paid = TRUE, !.paidAt = t]
                         ELSE inv.items[i]])
    IN  Marked(PayItemsMarked(inv, itemIndices))

RECURSIVE AddPaymentLoop(_, _, _, _, _)
\* The for loop of addPayment: items marked paid in index order while the
\* remaining amount covers them, stopping at the first it does not cover.
AddPaymentLoop(items, i, remainingAmount, paidIndices, t) ==
    IF i > Len(items) \/ remainingAmount <= 0
    THEN [items |-> items, paidIndices |-> paidIndices]
    ELSE IF items[i].paid
    THEN AddPaymentLoop(items, i + 1, remainingAmount, paidIndices, t)
    ELSE IF remainingAmount >= items[i].total
    THEN AddPaymentLoop([items EXCEPT ![i].paid = TRUE, ![i].paidAt = t],
                        i + 1, remainingAmount - items[i].total,
                        Append(paidIndices, i), t)
    ELSE [items |-> items, paidIndices |-> paidIndices]

\* An addPayment that marks no item and records none.
AddPaymentUnattributed(inv, amount, t) ==
    CalculateTotals(
        [inv EXCEPT !.payments = Append(inv.payments,
                        [amount |-> amount, method |-> "cash", itemIndices |-> <<>>])],
        t)

\* invoiceSchema.methods.addPayment
AddPayment(inv, amount, t) ==
    LET Recorded(r) ==
            CalculateTotals(
                [inv EXCEPT !.items = r.items,
                            !.payments = Append(inv.payments,
                                [amount |-> amount, method |-> "cash",
                                 itemIndices |-> r.paidIndices])],
                t)
    IN  Recorded(AddPaymentLoop(inv.items, 1, amount, <<>>, t))

\* Mongoose validates before the pre('save') hook runs: every ledger entry's
\* method must be in the schema's enum, and the numeric minimums hold on the
\* values the document carries when save() is called.
ValidInvoice(inv) ==
    /\ \A k \in DOMAIN inv.payments : inv.payments[k].method \in LedgerMethods
    /\ \A i \in DOMAIN inv.items :
          /\ inv.items[i].quantity >= 1
          /\ inv.items[i].unitPrice >= 0
          /\ inv.items[i].discount >= 0
          /\ inv.items[i].tax >= 0
    /\ inv.subtotal >= 0
    /\ inv.totalDiscount >= 0
    /\ inv.totalTax >= 0
    /\ inv.totalAmount >= 0

-----------------------------------------------------------------------------
(* Billing Service: createInvoice *)

\* calculateDueDate's termDays table (the terms the model uses).
TermDays(paymentTerms) ==
    IF paymentTerms = "net_15" THEN 15 ELSE 0

PaymentTerms == {"immediate"}

\* Invoice.findOne({ visit }): the _ids of the invoices referencing the visit.
InvoicesOfVisit(invs, v) == {k \in DOMAIN invs : invs[k].visit = v}

\* Invoice.generateInvoiceNumber: one more than the highest sequence number
\* stored for the month (the model stays within one month).
GenerateInvoiceNumber(invs) ==
    IF invs = <<>> THEN 1
    ELSE (CHOOSE n \in {invs[k].invoiceNumber : k \in DOMAIN invs} :
             \A k \in DOMAIN invs : invs[k].invoiceNumber <= n) + 1

\* new Invoice({...data, invoiceNumber, dueDate, status: 'pending'}) followed
\* by calculateTotals().
NewInvoice(data, invoiceNumber, t) ==
    CalculateTotals(
        [invoiceNumber |-> invoiceNumber, patient |-> data.patient,
         visit |-> data.visit, status |-> "pending",
         items |-> data.items, payments |-> <<>>,
         subtotal |-> 0, totalDiscount |-> 0, totalTax |-> 0, totalAmount |-> 0,
         coverageAmount |-> 0, coverageStatus |-> "pending",
         patientResponsibility |-> 0, amountPaid |-> 0, balanceDue |-> 0,
         paidDate |-> NoDate, dueDate |-> t + TermDays(data.paymentTerms)],
        t)

\* An insurance block that forgets the ledger entry.
InsuranceAutoPayNoEntry(inv, t) ==
    [inv EXCEPT
        !.items = [i \in DOMAIN inv.items |->
                      [inv.items[i] EXCEPT !.paid = TRUE, !.paidAt = t,
                                           !.coveredByInsurance = TRUE,
                                           !.insuranceApproved = TRUE]],
        !.coverageAmount = inv.totalAmount,
        !.coverageStatus = "approved",
        !.status = "paid",
        !.amountPaid = inv.totalAmount,
        !.balanceDue = 0,
        !.paidDate = t]

\* The "unified insurance logic" block of createInvoice.
InsuranceAutoPay(inv, t) ==
    [inv EXCEPT
        !.items = [i \in DOMAIN inv.items |->
                      [inv.items[i] EXCEPT !.paid = TRUE, !.paidAt = t,
                                           !.coveredByInsurance = TRUE,
                                           !.insuranceApproved = TRUE]],
        !.payments = Append(inv.payments,
                        [amount |-> inv.totalAmount, method |-> "insurance",
                         itemIndices |-> [i \in DOMAIN inv.items |-> i]]),
        !.coverageAmount = inv.totalAmount,
        !.coverageStatus = "approved",
        !.status = "paid",
        !.amountPaid = inv.totalAmount,
        !.balanceDue = 0,
        !.paidDate = t]

\* The first consultation item's total, or 0.
ConsultationTotal(items) ==
    IF \E i \in DOMAIN items : items[i].type = "consultation"
    THEN items[CHOOSE i \in DOMAIN items :
                  /\ items[i].type = "consultation"
                  /\ \A j \in 1..(i - 1) : items[j].type # "consultation"].total
    ELSE 0

\* A visit update that stores the reference of another invoice.
UpdateVisitAfterInvoiceCreationOther(vis, visitId, invoiceId, inv, hasInsurance) ==
    IF visitId \notin DOMAIN vis THEN vis
    ELSE [vis EXCEPT ![visitId] =
            [@ EXCEPT !.invoice = invoiceId + 1,
                      !.consultationFeeAmount = ConsultationTotal(inv.items),
                      !.status = IF hasInsurance THEN "In Queue" ELSE "Pending Payment",
                      !.consultationFeePaid = hasInsurance]]

\* BillingService._updateVisitAfterInvoiceCreation
UpdateVisitAfterInvoiceCreation(vis, visitId, invoiceId, inv, hasInsurance) ==
    IF visitId \notin DOMAIN vis THEN vis
    ELSE [vis EXCEPT ![visitId] =
            [@ EXCEPT !.invoice = invoiceId,
                      !.consultationFeeAmount = ConsultationTotal(inv.items),
                      !.status = IF hasInsurance THEN "In Queue" ELSE "Pending Payment",
                      !.consultationFeePaid = hasInsurance]]

\* BillingService._createGlobalPaymentRecord
GlobalPaymentRecord(invoiceId, entry) ==
    [invoice |-> invoiceId, amount |-> entry.amount, method |-> entry.method,
     status |-> "completed", refunded |-> 0]

\* A duplicate path that runs the visit update again for the invoice found.
ReturnExistingRelinked(invs, vis, pays, k) ==
    [invoices |-> invs, payments |-> pays,
     visits |-> UpdateVisitAfterInvoiceCreation(
                    vis, invs[k].visit, k, invs[k], HasInsurance(invs[k].patient)),
     ret |-> k, created |-> FALSE, emitted |-> {}]

\* createInvoice's duplicate path: the invoice found by visit is returned
\* before anything else is read or written.
ReturnExisting(invs, vis, pays, k) ==
    [invoices |-> invs, visits |-> vis, payments |-> pays,
     ret |-> k, created |-> FALSE, emitted |-> {}]

\* BillingService.createInvoice on the collections (invs, vis, pays): data is
\* the request, t0 the time the due date is taken, t1 the time of the save.
\* Gives the collections afterwards, the _id of the invoice returned (0 when
\* the call throws), whether a new invoice was persisted, and what the call
\* hands to AuditLog.log and Notification.createNotification.
CreateInvoice(invs, vis, pays, data, t0, t1) ==
    LET existing == InvoicesOfVisit(invs, data.visit)
        hasInsurance == HasInsurance(data.patient)
        id == Len(invs) + 1
        same == [invoices |-> invs, visits |-> vis, payments |-> pays]
        Stored(saved) ==
            [invoices |-> Append(invs, saved),
             payments |-> IF hasInsurance /\ Len(saved.payments) > 0
                          THEN Append(pays, GlobalPaymentRecord(id, saved.payments[1]))
                          ELSE pays,
             visits |-> IF data.visit # 0
                        THEN UpdateVisitAfterInvoiceCreation(
                                 vis, data.visit, id, saved, hasInsurance)
                        ELSE vis,
             ret |-> id, created |-> TRUE, emitted |-> {"audit", "notification"}]
        Saved(invoice) ==
            IF ~ValidInvoice(invoice)
            THEN same @@ [ret |-> 0, created |-> FALSE, emitted |-> {}]
            ELSE Stored(PreSave(invoice, TRUE, t1))
        Built(built) ==
            Saved(IF hasInsurance THEN InsuranceAutoPay(built, t0) ELSE built)
    IN  IF data.visit # 0 /\ existing # {}
        THEN ReturnExisting(invs, vis, pays, CHOOSE k \in existing : TRUE)
        ELSE IF hasInsurance /\ ~ProviderFound(data.patient)
        THEN same @@ [ret |-> 0, created |-> FALSE, emitted |-> {}]
        ELSE Built(NewInvoice(data, GenerateInvoiceNumber(invs), t0))

-----------------------------------------------------------------------------
(* Billing Service: items, payments, refunds, claims, the overdue sweep *)

\* An addItemsToInvoice that leaves the coverage amount as it was.
AddItemsCoverageKept(inv, items, hasInsurance, t) ==
    LET pushed == [k \in DOMAIN items |->
                      [items[k] EXCEPT !.paid = hasInsurance,
                                       !.paidAt = IF hasInsurance THEN t ELSE NoDate,
                                       !.coveredByInsurance = hasInsurance,
                                       !.insuranceApproved = hasInsurance]]
        newItemIndices == [k \in DOMAIN items |-> Len(inv.items) + k]
        withItems == [inv EXCEPT !.items = inv.items \o pushed]
    IN  IF hasInsurance
        THEN [withItems EXCEPT
                 !.payments = Append(inv.payments,
                                 [amount |-> SumTotals(items), method |-> "insurance",
                                  itemIndices |-> newItemIndices])]
        ELSE withItems

\* The in-memory invoice of addItemsToInvoice before it is saved.
AddItems(inv, items, hasInsurance, t) ==
    LET pushed == [k \in DOMAIN items |->
                      [items[k] EXCEPT !.paid = hasInsurance,
                                       !.paidAt = IF hasInsurance THEN t ELSE NoDate,
                                       !.coveredByInsurance = hasInsurance,
                                       !.insuranceApproved = hasInsurance]]
        newItemIndices == [k \in DOMAIN items |-> Len(inv.items) + k]
        newItemsTotal == SumTotals(items)
        withItems == [inv EXCEPT !.items = inv.items \o pushed]
    IN  IF hasInsurance
        THEN [withItems EXCEPT
                 !.payments = Append(inv.payments,
                                 [amount |-> newItemsTotal, method |-> "insurance",
                                  itemIndices |-> newItemIndices]),
                 !.coverageAmount = inv.coverageAmount + newItemsTotal]
        ELSE withItems

\* BillingService.addItemsToInvoice: the Invoice collection afterwards
\* (unchanged when the invoice is not found or the save is rejected).
AddItemsToInvoice(invs, invoiceId, items, hasInsurance, t) ==
    IF invoiceId \notin DOMAIN invs THEN invs
    ELSE LET doc == AddItems(invs[invoiceId], items, hasInsurance, t)
         IN  IF ValidInvoice(doc)
             THEN [invs EXCEPT ![invoiceId] = PreSave(doc, TRUE, t)]
             ELSE invs

\* processCardPayment and processOnlinePayment: the answers of the gateway
\* capability the two methods stand for.  The placeholder bodies in the
\* source answer success; processPayment branches on gatewayResponse.success.
ProcessCardPayment == {[success |-> TRUE], [success |-> FALSE]}

ProcessOnlinePayment == {[success |-> TRUE], [success |-> FALSE]}

\* The gateway answers a payment by the method can meet; methods without a
\* gateway call have the one answer they never read.
GatewayResponses(method) ==
    IF method \in {"credit_card", "debit_card"} THEN ProcessCardPayment
    ELSE IF method = "online" THEN ProcessOnlinePayment
    ELSE {[success |-> TRUE]}

\* A balance check against the invoice total instead of the balance due.
ExceedsTotal(amount, inv) == amount > inv.totalAmount

\* processPayment's amount check.
ExceedsBalance(amount, inv) == amount > inv.balanceDue

\* A processPayment that completes the Payment record whatever the gateway
\* answered.
PaymentStatusCompleted(method, gatewayResponse) == "completed"

\* The status processPayment gives the Payment record: card and online
\* methods take the gateway's answer, every other method completes.
PaymentStatus(method, gatewayResponse) ==
    IF method \in {"credit_card", "debit_card"}
    THEN (IF gatewayResponse.success THEN "completed" ELSE "failed")
    ELSE IF method = "online"
    THEN (IF gatewayResponse.success THEN "completed" ELSE "failed")
    ELSE "completed"

\* BillingService._checkAndUpdateVisitStatus, and the billing routes'
\* updateVisitStatusAfterConsultationPayment, which has the same body.
CheckAndUpdateVisitStatus(vis, inv) ==
    IF inv.visit \notin DOMAIN vis THEN vis
    ELSE LET visit == vis[inv.visit]
         IN  IF /\ ~HasInsurance(visit.patient)
                /\ visit.status = "Pending Payment"
                /\ \E i \in DOMAIN inv.items : inv.items[i].type = "consultation"
                /\ inv.items[CHOOSE i \in DOMAIN inv.items :
                       /\ inv.items[i].type = "consultation"
                       /\ \A j \in 1..(i - 1) : inv.items[j].type # "consultation"].paid
             THEN [vis EXCEPT ![inv.visit] =
                     [@ EXCEPT !.status = "In Queue", !.consultationFeePaid = TRUE]]
             ELSE vis

\* The Payment record's refund bookkeeping (models/Payment.js): a completed
\* payment accepts refunds up to what is left of its amount.
PaymentAcceptsRefund(payment, amount) ==
    /\ payment.status = "completed"
    /\ amount > 0
    /\ amount <= payment.amount - payment.refunded

\* The ledger entry processRefund pushes.
RefundEntry(payment, amount) ==
    [amount |-> 0 - amount, method |-> payment.method, itemIndices |-> <<>>]

\* The in-memory invoice of processInsuranceClaim before it is saved: every
\* item covered by insurance that the provider's table covers is approved,
\* at the percentage the table gives.
InsuranceClaim(inv, coveragePercentage, t) ==
    LET covers == coveragePercentage > 0
        items1 == [i \in DOMAIN inv.items |->
                      IF inv.items[i].coveredByInsurance /\ covers
                      THEN [inv.items[i] EXCEPT !.insuranceApproved = TRUE]
                      ELSE inv.items[i]]
        totalCoverage ==
            IF covers
            THEN (SumTotals(SelectSeq(inv.items, LAMBDA it : it.coveredByInsurance))
                     * coveragePercentage) \div 100
            ELSE 0
    IN  CalculateTotals([inv EXCEPT !.items = items1,
                                    !.coverageAmount = totalCoverage,
                                    !.coverageStatus = "processing"], t)

\* A sweep query that also finds the invoices already overdue.
PastDueInvoices(invs, t) ==
    {k \in DOMAIN invs : invs[k].status \in {"pending", "overdue"} /\ invs[k].dueDate < t}

\* Invoice.find({ status: 'pending', dueDate: { $lt: new Date() } })
OverdueInvoices(invs, t) ==
    {k \in DOMAIN invs : invs[k].status = "pending" /\ invs[k].dueDate < t}

\* The loop of checkOverdueInvoices: each found invoice set to overdue and saved.
SweepOverdue(invs, t) ==
    [k \in DOMAIN invs |->
        IF k \in OverdueInvoices(invs, t)
        THEN PreSave([invs[k] EXCEPT !.status = "overdue"], FALSE, t)
        ELSE invs[k]]

\* The recipients of the notifications checkOverdueInvoices creates, one per
\* turn of its loop, in the order of the invoices found.
SweepNotified(invs, t) ==
    SelectSeq([k \in DOMAIN invs |-> k], LAMBDA k : k \in OverdueInvoices(invs, t))

-----------------------------------------------------------------------------
(* Visit Status Projector (routes/billing.js) *)

\* How many of the paid items have the type.
PaidOfType(paidItems, type) ==
    Len(SelectSeq(paidItems, LAMBDA it : it.type = type))

\* A block that advances every order in Pending Payment once an item of the
\* type was paid.
AdvanceOrdersAll(orders, count) ==
    [i \in DOMAIN orders |->
        IF orders[i].status = "Pending Payment" /\ count > 0
        THEN [orders[i] EXCEPT !.status = "Pending"]
        ELSE orders[i]]

\* One order array after the projector's block for it: the orders in Pending
\* Payment, most recently created first (the sort is stable), and the first
\* min(count, number pending) of them advanced to Pending.
AdvanceOrders(orders, count) ==
    LET pending == {i \in DOMAIN orders : orders[i].status = "Pending Payment"}
        Before(j, i) == \/ orders[j].createdAt > orders[i].createdAt
                        \/ orders[j].createdAt = orders[i].createdAt /\ j < i
        rank(i) == Cardinality({j \in pending : Before(j, i)})
        updateCount == Min(count, Cardinality(pending))
    IN  [i \in DOMAIN orders |->
            IF i \in pending /\ rank(i) < updateCount
            THEN [orders[i] EXCEPT !.status = "Pending"]
            ELSE orders[i]]

\* A projector that advances lab orders for every paid item, of any type.
UpdateVisitOrderStatusesAnyType(visit, paidItems) ==
    [visit EXCEPT
        !.labOrders = AdvanceOrders(@, Len(paidItems)),
        !.radiologyOrders = AdvanceOrders(@, PaidOfType(paidItems, "imaging")),
        !.prescriptions = AdvanceOrders(@, PaidOfType(paidItems, "medication"))]

\* updateVisitOrderStatuses(visit, paidItems)
UpdateVisitOrderStatuses(visit, paidItems) ==
    [visit EXCEPT
        !.labOrders = AdvanceOrders(@, PaidOfType(paidItems, "lab_test")),
        !.radiologyOrders = AdvanceOrders(@, PaidOfType(paidItems, "imaging")),
        !.prescriptions = AdvanceOrders(@, PaidOfType(paidItems, "medication"))]

\* The items the pay-items handler hands to the projector.
PaidItems(inv, validIndices) ==
    [k \in DOMAIN validIndices |-> inv.items[validIndices[k]]]

\* validIndices of the pay-items handler.
ValidIndices(inv, itemIndices) ==
    SelectSeq(itemIndices,
        LAMBDA index : index >= 1 /\ index <= Len(inv.items) /\ ~inv.items[index].paid)

\* POST /invoices/:invoiceId/pay-items on the collections: the collections
\* afterwards, the HTTP status and the amount payItems returned.
PayItemsRoute(invs, vis, invoiceId, itemIndices, method, t) ==
    LET same == [invoices |-> invs, visits |-> vis]
        Orders(saved, paidItems, vis1) ==
            IF saved.visit \in DOMAIN vis1
            THEN [vis1 EXCEPT ![saved.visit] = UpdateVisitOrderStatuses(@, paidItems)]
            ELSE vis1
        Projected(saved, paidItems) ==
            Orders(saved, paidItems,
                   IF \E k \in DOMAIN paidItems : paidItems[k].type = "consultation"
                   THEN CheckAndUpdateVisitStatus(vis, saved)
                   ELSE vis)
        Stored(saved, validIndices, totalPaid) ==
            [invoices |-> [invs EXCEPT ![invoiceId] = saved],
             visits |-> Projected(saved, PaidItems(saved, validIndices)),
             http |-> 200, ret |-> totalPaid]
        Paid(r, validIndices) ==
            IF ~ValidInvoice(r.inv) THEN same @@ [http |-> 500, ret |-> 0]
            ELSE Stored(PreSave(r.inv, TRUE, t), validIndices, r.ret)
        Filtered(inv, validIndices) ==
            IF validIndices = <<>> THEN same @@ [http |-> 400, ret |-> 0]
            ELSE Paid(PayItems(inv, validIndices, method, t), validIndices)
    IN  IF itemIndices = <<>> THEN same @@ [http |-> 400, ret |-> 0]
        ELSE IF invoiceId \notin DOMAIN invs THEN same @@ [http |-> 404, ret |-> 0]
        ELSE Filtered(invs[invoiceId], ValidIndices(invs[invoiceId], itemIndices))

-----------------------------------------------------------------------------
(* Requests the model issues *)

MaxAmount == 2
MaxPayments == 2

\* The prices the Service collection holds for the consultation and for a
\* lab test.
ConsultationFee == 2
LabTestFee == 3

\* Item lists a POST /invoices request of the model carries: a consultation and
\* a lab test, the same with either of them free, and a free consultation alone.
ItemLists ==
    { <<ServiceItem("consultation", ConsultationFee), ServiceItem("lab_test", LabTestFee)>>,
      <<ServiceItem("consultation", 0), ServiceItem("lab_test", LabTestFee)>>,
      <<ServiceItem("consultation", ConsultationFee), ServiceItem("lab_test", 0)>>,
      <<ServiceItem("consultation", 0)>> }

\* POST /invoices requests: for a patient without a visit, or for a visit
\* and its patient.
InvoiceRequests ==
    {[patient |-> p, visit |-> v, items |-> items, paymentTerms |-> terms] :
        p \in Patients, v \in 0..MaxVisits, items \in ItemLists,
        terms \in PaymentTerms}

\* The items of the invoices concurrent callers create.
ConcurrentItems ==
    <<ServiceItem("consultation", ConsultationFee), ServiceItem("lab_test", LabTestFee)>>

\* itemIndices of a pay-items request: single indices, one of them past the
\* end of the list, and pairs that begin with the first item, the repeated
\* pair included.
IndexLists ==
    {<<i>> : i \in 1..(MaxItems + 1)} \cup {<<1, j>> : j \in 1..MaxItems}

\* Pay-items requests: every index list in cash, and one by a method the
\* route accepts and the ledger's enum does not list.
PayItemsRequests ==
    {[itemIndices |-> l, method |-> "cash"] : l \in IndexLists}
        \cup {[itemIndices |-> <<1>>, method |-> "online"]}

\* Payment requests: cash in every amount and of a lab test's price, and the
\* consultation fee online.
PaymentRequests ==
    {[amount |-> a, method |-> "cash"] : a \in (1..MaxAmount) \cup {LabTestFee}}
        \cup {[amount |-> ConsultationFee, method |-> "online"]}

\* The bodies of the PUT /invoices/:id requests of the model: one sets the
\* status field to paid, one to cancelled, and one carries an items array of
\* a single lab test.
UpdateBodies ==
    {[status |-> "paid"], [status |-> "cancelled"],
     [items |-> <<ServiceItem("lab_test", LabTestFee)>>]}

\* The batches of the medicine in stock, earliest expiry first: the
\* quantityRemaining of each, all active and unexpired.
StockedBatches == <<1, 2>>

\* What the model remembers of the handler that ran last: its name, the
\* invoice it addressed, whether it succeeded, the number or _id it returned,
\* and its request with what the handler did for it.
Done(op, id, ok, ret, arg) ==
    [op |-> op, id |-> id, ok |-> ok, ret |-> ret, arg |-> arg]

\* The concurrent callers, and the slot of a caller with no request in
\* flight; paid adds up what the caller's answered payment requests charged.
Procs == {1, 2}

Idle == [pc |-> "idle", paid |-> 0]

NewVisit(p, status) ==
    [patient |-> p, status |-> status, isActive |-> TRUE, invoice |-> 0,
     consultationFeePaid |-> FALSE, consultationFeeAmount |-> 0,
     labOrders |-> <<>>, radiologyOrders |-> <<>>, prescriptions |-> <<>>]

-----------------------------------------------------------------------------
(* Handlers, each one atomic step *)

Init ==
    /\ now = 0
    /\ steps = 0
    /\ visits = <<>>
    /\ invoices = <<>>
    /\ payments = <<>>
    /\ last = Done("none", 0, TRUE, 0, [dt |-> 0])
    /\ procs = [p \in Procs |-> Idle]
    /\ dispensings = <<>>
    /\ batches = StockedBatches
    /\ stockMovements = <<>>

\* One more request handled from start to end, no other request in between.
Step ==
    /\ steps < MaxSteps
    /\ steps' = steps + 1
    /\ UNCHANGED <<procs, dispensings, batches, stockMovements>>

\* Time passes.
Tick ==
    /\ Step
    /\ now < MaxTime
    /\ now' = now + 1
    /\ last' = Done("tick", 0, TRUE, 0, [dt |-> 1])
    /\ UNCHANGED <<visits, invoices, payments>>

\* POST /api/visits: rejected while the patient has an active visit; the
\* invoice for the consultation fee is created when the service is found,
\* and when createInvoice throws the visit stays saved and 400 is answered.
\* dt is the time that passes between createInvoice taking the due date and
\* its save.  maxVisits bounds the Visit collection.
PostVisit(p, hasService, dt, maxVisits) ==
    /\ Step
    /\ now + dt <= MaxTime
    /\ LET active == \E v \in DOMAIN visits :
                         visits[v].patient = p /\ visits[v].isActive
           vid == Len(visits) + 1
           vis1 == Append(visits,
                       NewVisit(p, IF HasInsurance(p) THEN "In Queue"
                                   ELSE "Pending Payment"))
           data == [patient |-> p, visit |-> vid,
                    items |-> <<ServiceItem("consultation", ConsultationFee)>>,
                    paymentTerms |-> "immediate"]
           r == CreateInvoice(invoices, vis1, payments, data, now, now + dt)
       IN  IF active
           THEN /\ dt = 0 /\ ~hasService
                /\ last' = Done("createVisit", 0, FALSE, 0, [patient |-> p])
                /\ UNCHANGED <<now, visits, invoices, payments>>
           ELSE /\ Len(visits) < maxVisits
                /\ IF hasService
                   THEN /\ r.created => Len(invoices) < MaxInvoices
                        /\ ~r.created => dt = 0
                        /\ invoices' = r.invoices
                        /\ visits' = r.visits
                        /\ payments' = r.payments
                        /\ now' = now + dt
                        /\ last' = Done("createVisit", r.ret, r.ret # 0, vid, [patient |-> p])
                   ELSE /\ dt = 0
                        /\ visits' = vis1
                        /\ last' = Done("createVisit", 0, TRUE, vid, [patient |-> p])
                        /\ UNCHANGED <<now, invoices, payments>>

\* POST /api/visits of the sequential callers.
CreateVisit(p, hasService, dt) == PostVisit(p, hasService, dt, MaxVisits)

\* POST /api/billing/invoices -> billingService.createInvoice(data).  A
\* request that names a visit names a stored visit and that visit's patient.
\* failing names the calls that fail while the request runs, of those made
\* after the invoice was saved: the global Payment record's save ("mirror",
\* caught inside _createGlobalPaymentRecord) and Notification.createNotification
\* ("notification", not caught: createInvoice's catch block throws it again
\* and the route answers 500).
PostInvoice(data, dt, failing) ==
    /\ Step
    /\ data.visit # 0 => /\ data.visit \in DOMAIN visits
                         /\ visits[data.visit].patient = data.patient
    /\ now + dt <= MaxTime
    /\ Len(data.items) <= MaxItems
    /\ LET r == CreateInvoice(invoices, visits, payments, data, now, now + dt)
       IN  /\ r.created => Len(invoices) < MaxInvoices
           /\ ~r.created => dt = 0
           /\ failing # {} => r.created
           /\ "mirror" \in failing => r.payments # payments
           /\ invoices' = r.invoices
           /\ visits' = r.visits
           /\ payments' = IF "mirror" \in failing THEN payments ELSE r.payments
           /\ now' = now + dt
           /\ last' = Done("createInvoice", r.ret,
                           r.ret # 0 /\ "notification" \notin failing, r.ret,
                           [patient |-> data.patient, visit |-> data.visit,
                            created |-> r.created,
                            failing |-> failing, emitted |-> r.emitted \ failing])

\* The visit middleware in front of the order routes: it loads the visit and
\* derives hasInsurance from the visit's patient.
CheckPaymentEligibility(v) == v \in DOMAIN visits

\* The names of the lab tests a doctor orders.
TestNames == {"CBC", "Malaria"}

\* The invoice line the lab-orders route builds for a test.
LabTestItem(testName) ==
    [ServiceItem("lab_test", LabTestFee) EXCEPT !.description = testName]

\* POST /api/visits/:id/lab-orders on the collections: the order is pushed
\* onto the visit, and when the visit has an invoice and the service is found
\* its line is added to the invoice.
LabOrdersRoute(vis, invs, v, testName, hasService, t) ==
    LET hasInsurance == HasInsurance(vis[v].patient)
        order == [testName |-> testName,
                  status |-> IF hasInsurance THEN "Pending" ELSE "Pending Payment",
                  createdAt |-> t]
        billed == vis[v].invoice # 0 /\ hasService
    IN  [visits |-> [vis EXCEPT ![v].labOrders = Append(@, order)],
         invoices |-> IF billed
                      THEN AddItemsToInvoice(invs, vis[v].invoice,
                               <<LabTestItem(testName)>>, hasInsurance, t)
                      ELSE invs,
         billed |-> billed]

\* POST /api/visits/:id/lab-orders, for the test the sequential callers order.
AddLabOrder(v, hasService) ==
    /\ Step
    /\ CheckPaymentEligibility(v)
    /\ Len(visits[v].labOrders) < MaxOrders
    /\ LET r == LabOrdersRoute(visits, invoices, v, "CBC", hasService, now)
       IN  /\ r.billed => /\ visits[v].invoice \in DOMAIN invoices
                          /\ Len(invoices[visits[v].invoice].items) < MaxItems
                          /\ Len(invoices[visits[v].invoice].payments) < MaxLedger
           /\ visits' = r.visits
           /\ invoices' = r.invoices
           /\ last' = Done("addLabOrder", visits[v].invoice, TRUE, 0,
                           [visit |-> v, billed |-> r.billed])
           /\ UNCHANGED <<now, payments>>

\* billingService.processPayment(paymentData), reached from POST /payments
\* and POST /invoices/:id/payments.  failing names the calls that fail while
\* the request runs, of those made after the invoice was saved: the receipt
\* notification ("notification"); sendPaymentReceipt is awaited inside the
\* try block, so its failure is thrown again before the visit is looked at.
ProcessPayment(id, amount, method, gatewayResponse, failing) ==
    /\ Step
    /\ id \in DOMAIN invoices
    /\ LET inv == invoices[id]
           status == PaymentStatus(method, gatewayResponse)
           payment == [invoice |-> id, amount |-> amount, method |-> method,
                       status |-> status, refunded |-> 0]
           paid == AddPayment(inv, amount, now)
           saved == PreSave(paid, TRUE, now)
           arg == [amount |-> amount, method |-> method,
                   gateway |-> gatewayResponse.success, failing |-> failing]
       IN  IF ExceedsBalance(amount, inv)
           THEN /\ failing = {}
                /\ last' = Done("processPayment", id, FALSE, 0, arg)
                /\ UNCHANGED <<now, visits, invoices, payments>>
           ELSE /\ Len(payments) < MaxPayments
                /\ Len(inv.payments) < MaxLedger
                /\ failing # {} => status = "completed"
                /\ payments' = Append(payments, payment)
                /\ invoices' = IF status = "completed"
                               THEN [invoices EXCEPT ![id] = saved]
                               ELSE invoices
                /\ visits' = IF /\ status = "completed" /\ inv.visit # 0
                                /\ "notification" \notin failing
                             THEN CheckAndUpdateVisitStatus(visits, saved)
                             ELSE visits
                /\ last' = Done("processPayment", id, "notification" \notin failing,
                                Len(payments) + 1, arg)
                /\ UNCHANGED now

\* POST /api/billing/invoices/:invoiceId/pay-items
PayItemsRequest(id, itemIndices, method) ==
    /\ Step
    /\ id \in DOMAIN invoices
    /\ Len(invoices[id].payments) < MaxLedger
    /\ LET r == PayItemsRoute(invoices, visits, id, itemIndices, method, now)
       IN  /\ invoices' = r.invoices
           /\ visits' = r.visits
           /\ last' = Done("payItems", id, r.http = 200, r.ret,
                           [itemIndices |-> itemIndices, method |-> method,
                            marked |-> IF r.http = 200
                                       THEN PayItemsMarked(invoices[id], itemIndices)
                                       ELSE {}])
           /\ UNCHANGED <<now, payments>>

\* billingService.processRefund(paymentId, refundData).  No request of the
\* model names a gateway, so payment.gateway is unset and the gateway refund
\* is skipped.
ProcessRefund(paymentId, amount) ==
    /\ Step
    /\ paymentId \in DOMAIN payments
    /\ LET payment == payments[paymentId]
           id == payment.invoice
           doc == [invoices[id] EXCEPT
                      !.payments = Append(@, RefundEntry(payment, amount))]
           arg == [payment |-> paymentId, amount |-> amount]
       IN  IF ~PaymentAcceptsRefund(payment, amount)
           THEN /\ last' = Done("processRefund", id, FALSE, 0, arg)
                /\ UNCHANGED <<now, visits, invoices, payments>>
           ELSE /\ Len(invoices[id].payments) < MaxLedger
                /\ payments' = [payments EXCEPT ![paymentId].refunded = @ + amount]
                /\ IF ValidInvoice(doc)
                   THEN /\ invoices' = [invoices EXCEPT ![id] = PreSave(doc, TRUE, now)]
                        /\ last' = Done("processRefund", id, TRUE, 0, arg)
                   ELSE /\ invoices' = invoices
                        /\ last' = Done("processRefund", id, FALSE, 0, arg)
                /\ UNCHANGED <<now, visits>>

\* billingService.processInsuranceClaim(invoiceId, insuranceData).  failing
\* names the calls that fail while the request runs, of those made after the
\* invoice was saved: submitElectronicClaim ("claim", reached when the
\* provider has electronic submission enabled, and not caught).
ProcessInsuranceClaim(id, coveragePercentage, failing) ==
    /\ Step
    /\ id \in DOMAIN invoices
    /\ LET doc == InsuranceClaim(invoices[id], coveragePercentage, now)
       IN  /\ invoices' = [invoices EXCEPT ![id] = PreSave(doc, TRUE, now)]
           /\ last' = Done("processInsuranceClaim", id, "claim" \notin failing, 0,
                           [coveragePercentage |-> coveragePercentage,
                            failing |-> failing])
           /\ UNCHANGED <<now, visits, payments>>

\* PUT /api/billing/invoices/:id: a paid invoice is refused; otherwise the
\* body's fields are assigned onto the document (Object.assign) and it is
\* saved.  The pre-save hook recalculates only when the body carried items
\* or payments.
UpdateInvoice(id, body) ==
    /\ Step
    /\ id \in DOMAIN invoices
    /\ LET inv == invoices[id]
           doc == [f \in DOMAIN inv |-> IF f \in DOMAIN body THEN body[f] ELSE inv[f]]
           modified == "items" \in DOMAIN body \/ "payments" \in DOMAIN body
       IN  IF inv.status = "paid" \/ ~ValidInvoice(doc)
           THEN /\ last' = Done("updateInvoice", id, FALSE, 0, body)
                /\ UNCHANGED invoices
           ELSE /\ invoices' = [invoices EXCEPT ![id] = PreSave(doc, modified, now)]
                /\ last' = Done("updateInvoice", id, TRUE, 0, body)
    /\ UNCHANGED <<now, visits, payments>>

\* A payment-status route that answers and leaves the visit as it is.
UpdatePaymentStatusRouteIdle(vis, invs, v) ==
    [visits |-> vis, http |-> IF v \in DOMAIN vis THEN 200 ELSE 404]

\* PATCH /api/visits/:id/payment-status on the Visit collection: the visit
\* moves to In Queue when its invoice's consultation item is paid, whatever
\* its status was.  Gives the collection afterwards and the HTTP status.
UpdatePaymentStatusRoute(vis, invs, v) ==
    LET same(http) == [visits |-> vis, http |-> http]
        Confirmed(inv) ==
            IF /\ \E i \in DOMAIN inv.items : inv.items[i].type = "consultation"
               /\ inv.items[CHOOSE i \in DOMAIN inv.items :
                      /\ inv.items[i].type = "consultation"
                      /\ \A j \in 1..(i - 1) : inv.items[j].type # "consultation"].paid
            THEN [visits |-> [vis EXCEPT ![v] =
                                 [@ EXCEPT !.status = "In Queue",
                                           !.consultationFeePaid = TRUE]],
                  http |-> 200]
            ELSE same(400)
    IN  IF v \notin DOMAIN vis THEN same(404)
        ELSE IF vis[v].invoice = 0 THEN same(400)
        ELSE IF vis[v].invoice \notin DOMAIN invs THEN same(404)
        ELSE Confirmed(invs[vis[v].invoice])

\* The payment-status request, whenever it is made.
ConfirmPaymentVisit(v) ==
    /\ v \in DOMAIN visits
    /\ LET r == UpdatePaymentStatusRoute(visits, invoices, v)
       IN  /\ visits' = r.visits
           /\ last' = Done("confirmPayment", visits[v].invoice, r.http = 200, 0,
                           [visit |-> v, was |-> visits[v].status])
    /\ UNCHANGED <<now, invoices, payments>>

\* PATCH /api/visits/:id/payment-status
ConfirmPayment(v) ==
    /\ Step
    /\ ConfirmPaymentVisit(v)

\* The doctor takes the visit from the queue: In Queue -> In-Progress.
StartVisit(v) ==
    /\ Step
    /\ v \in DOMAIN visits
    /\ visits[v].status = "In Queue"
    /\ visits' = [visits EXCEPT ![v].status = "In-Progress"]
    /\ last' = Done("startVisit", visits[v].invoice, TRUE, 0, [visit |-> v])
    /\ UNCHANGED <<now, invoices, payments>>

\* visitSchema.methods.endVisit: In-Progress -> completed, and an error for
\* a visit in any other status.
EndVisit(v) ==
    /\ Step
    /\ v \in DOMAIN visits
    /\ IF visits[v].status # "In-Progress"
       THEN /\ last' = Done("endVisit", visits[v].invoice, FALSE, 0, [visit |-> v])
            /\ UNCHANGED visits
       ELSE /\ visits' = [visits EXCEPT ![v].status = "completed"]
            /\ last' = Done("endVisit", visits[v].invoice, TRUE, 0, [visit |-> v])
    /\ UNCHANGED <<now, invoices, payments>>

\* billingService.checkOverdueInvoices()
CheckOverdueInvoices ==
    /\ Step
    /\ invoices' = SweepOverdue(invoices, now)
    /\ last' = Done("checkOverdueInvoices", 0, TRUE,
                    Cardinality(OverdueInvoices(invoices, now)),
                    [notified |-> SweepNotified(invoices, now)])
    /\ UNCHANGED <<now, visits, payments>>

-----------------------------------------------------------------------------
(* The same handlers run by concurrent callers.  A handler awaits every   *)
(* database call, so another caller's calls run between its own: each step *)
(* below is one database call with the synchronous code that follows it.  *)

\* No request of caller p is in flight.
Free(p) == procs[p].pc \in {"idle", "done"}

\* The slot of a caller whose request was answered: ok is FALSE when the
\* handler threw or answered with an error status, ret is the _id of the
\* document returned.
Answered(p, op, ok, ret, charged) ==
    [pc |-> "done", op |-> op, ok |-> ok, ret |-> ret,
     paid |-> procs[p].paid + charged]

\* An Invoice collection whose only unique index is invoiceNumber.
DuplicateNumber(invs, doc) ==
    \E k \in DOMAIN invs : invs[k].invoiceNumber = doc.invoiceNumber

\* The unique indexes of the Invoice collection: invoiceNumber, and visit
\* (sparse: invoices without a visit are not indexed).
DuplicateKey(invs, doc) ==
    \E k \in DOMAIN invs :
        \/ invs[k].invoiceNumber = doc.invoiceNumber
        \/ doc.visit # 0 /\ invs[k].visit = doc.visit

\* The ledger entries a loaded document (base) gained in memory (mem): save()
\* sends them as a $push.
Pushed(base, mem) ==
    SubSeq(mem.payments, Len(base.payments) + 1, Len(mem.payments))

\* save() sets fields of existing items by position.
SetsItems(base, mem) ==
    \E i \in DOMAIN base.items : mem.items[i] # base.items[i]

\* The stored document's version key moved on since base was loaded.  Every
\* save that pushes onto items or payments increments the key and no other
\* save does, so the key differs exactly when an array's length differs.
Stale(cur, base) ==
    \/ Len(cur.payments) # Len(base.payments)
    \/ Len(cur.items) # Len(base.items)

\* Whether save() puts the loaded version key in its update's filter.  It
\* does for an update that sets items by position; when the same update also
\* pushes, Mongoose's bookkeeping keeps either mark, so both are possible.
VersionChecks(base, mem) ==
    IF SetsItems(base, mem) /\ Pushed(base, mem) # <<>> THEN BOOLEAN
    ELSE {SetsItems(base, mem)}

\* The stored document after save() applied the in-memory document's
\* changes: pushed entries are appended to what is stored, every other
\* modified path overwrites it, unmodified paths are left as stored.
ApplyDelta(cur, base, mem) ==
    [f \in DOMAIN cur |->
        IF f = "payments" THEN cur.payments \o Pushed(base, mem)
        ELSE IF f = "items"
        THEN [i \in DOMAIN cur.items |->
                 [g \in DOMAIN cur.items[i] |->
                     IF mem.items[i][g] # base.items[i][g]
                     THEN mem.items[i][g]
                     ELSE cur.items[i][g]]]
        ELSE IF mem[f] # base[f] THEN mem[f] ELSE cur[f]]

\* Payment requests in flight that have not saved their invoice yet.
InFlight == {p \in Procs : procs[p].pc \in {"payment:record", "payment:save", "payItems:save"}}

\* createInvoice, first call: Invoice.findOne({ visit }).
CreateInvoiceFind(p, v, items) ==
    /\ Free(p)
    /\ v \in DOMAIN visits
    /\ LET existing == InvoicesOfVisit(invoices, v)
           data == [patient |-> visits[v].patient, visit |-> v, items |-> items,
                    paymentTerms |-> "immediate"]
       IN  procs' = [procs EXCEPT ![p] =
                IF existing # {}
                THEN Answered(p, "createInvoice", TRUE, CHOOSE k \in existing : TRUE, 0)
                ELSE [pc |-> "createInvoice:number", data |-> data, paid |-> @.paid]]
    /\ UNCHANGED <<now, steps, visits, invoices, payments, last,
                   dispensings, batches, stockMovements>>

\* createInvoice, Invoice.generateInvoiceNumber() and the document built
\* from it, the insurance block included.
CreateInvoiceNumber(p) ==
    /\ procs[p].pc = "createInvoice:number"
    /\ LET data == procs[p].data
           built == NewInvoice(data, GenerateInvoiceNumber(invoices), now)
           invoice == IF HasInsurance(data.patient)
                      THEN InsuranceAutoPay(built, now) ELSE built
       IN  procs' = [procs EXCEPT ![p] =
                IF HasInsurance(data.patient) /\ ~ProviderFound(data.patient)
                THEN Answered(p, "createInvoice", FALSE, 0, 0)
                ELSE [pc |-> "createInvoice:save", data |-> data, doc |-> invoice,
                      paid |-> @.paid]]
    /\ UNCHANGED <<now, steps, visits, invoices, payments, last,
                   dispensings, batches, stockMovements>>

\* createInvoice, invoice.save(): the insert.  A rejected insert throws, and
\* the catch block logs the error and throws it again.
CreateInvoiceSave(p) ==
    /\ procs[p].pc = "createInvoice:save"
    /\ LET doc == procs[p].doc
       IN  IF ~ValidInvoice(doc) \/ DuplicateKey(invoices, doc)
           THEN /\ procs' = [procs EXCEPT ![p] = Answered(p, "createInvoice", FALSE, 0, 0)]
                /\ UNCHANGED invoices
           ELSE /\ invoices' = Append(invoices, PreSave(doc, TRUE, now))
                /\ procs' = [procs EXCEPT ![p] =
                       [pc |-> "createInvoice:after", data |-> @.data,
                        id |-> Len(invoices) + 1, paid |-> @.paid]]
    /\ UNCHANGED <<now, steps, visits, payments, last,
                   dispensings, batches, stockMovements>>

\* createInvoice after the insert: the global Payment record of an insured
\* patient's invoice and the visit update; the invoice is returned.
CreateInvoiceAfter(p) ==
    /\ procs[p].pc = "createInvoice:after"
    /\ LET id == procs[p].id
           data == procs[p].data
           hasInsurance == HasInsurance(data.patient)
           saved == invoices[id]
       IN  /\ payments' = IF hasInsurance /\ Len(saved.payments) > 0
                          THEN Append(payments, GlobalPaymentRecord(id, saved.payments[1]))
                          ELSE payments
           /\ visits' = UpdateVisitAfterInvoiceCreation(
                            visits, data.visit, id, saved, hasInsurance)
           /\ procs' = [procs EXCEPT ![p] = Answered(p, "createInvoice", TRUE, id, 0)]
    /\ UNCHANGED <<now, steps, invoices, last,
                   dispensings, batches, stockMovements>>

\* processPayment, Invoice.findById() and the amount check.
PaymentLoad(p, id, amount) ==
    /\ Free(p)
    /\ id \in DOMAIN invoices
    /\ Len(invoices[id].payments) + Cardinality(InFlight) < MaxLedger
    /\ procs' = [procs EXCEPT ![p] =
           IF ExceedsBalance(amount, invoices[id])
           THEN Answered(p, "processPayment", FALSE, 0, 0)
           ELSE [pc |-> "payment:record", id |-> id, amount |-> amount,
                 doc |-> invoices[id], paid |-> @.paid]]
    /\ UNCHANGED <<now, steps, visits, invoices, payments, last,
                   dispensings, batches, stockMovements>>

\* processPayment, payment.save(): the global Payment record (cash completes).
PaymentRecord(p) ==
    /\ procs[p].pc = "payment:record"
    /\ payments' = Append(payments,
           [invoice |-> procs[p].id, amount |-> procs[p].amount, method |-> "cash",
            status |-> PaymentStatus("cash", [success |-> TRUE]), refunded |-> 0])
    /\ procs' = [procs EXCEPT ![p].pc = "payment:save"]
    /\ UNCHANGED <<now, steps, visits, invoices, last,
                   dispensings, batches, stockMovements>>

\* processPayment, invoice.addPayment() and invoice.save().  A save whose
\* version check fails throws a VersionError, which the catch block throws
\* again.
PaymentSave(p) ==
    /\ procs[p].pc = "payment:save"
    /\ LET id == procs[p].id
           base == procs[p].doc
           mem == PreSave(AddPayment(base, procs[p].amount, now), TRUE, now)
       IN  \E checked \in VersionChecks(base, mem) :
              IF checked /\ Stale(invoices[id], base)
              THEN /\ procs' = [procs EXCEPT ![p] =
                          Answered(p, "processPayment", FALSE, 0, 0)]
                   /\ UNCHANGED invoices
              ELSE /\ invoices' = [invoices EXCEPT ![id] = ApplyDelta(@, base, mem)]
                   /\ procs' = [procs EXCEPT ![p] =
                          [pc |-> "payment:visit", id |-> id, amount |-> @.amount,
                           doc |-> mem, paid |-> @.paid]]
    /\ UNCHANGED <<now, steps, visits, payments, last,
                   dispensings, batches, stockMovements>>

\* processPayment, _checkAndUpdateVisitStatus(invoice) on the document in
\* memory; the Payment record is returned.
PaymentVisit(p) ==
    /\ procs[p].pc = "payment:visit"
    /\ visits' = IF procs[p].doc.visit # 0
                 THEN CheckAndUpdateVisitStatus(visits, procs[p].doc)
                 ELSE visits
    /\ procs' = [procs EXCEPT ![p] =
           Answered(p, "processPayment", TRUE, procs[p].id, procs[p].amount)]
    /\ UNCHANGED <<now, steps, invoices, payments, last,
                   dispensings, batches, stockMovements>>

\* pay-items, Invoice.findById() and the index filter.
PayItemsLoad(p, id, itemIndices) ==
    /\ Free(p)
    /\ id \in DOMAIN invoices
    /\ Len(invoices[id].payments) + Cardinality(InFlight) < MaxLedger
    /\ LET validIndices == ValidIndices(invoices[id], itemIndices)
       IN  procs' = [procs EXCEPT ![p] =
               IF validIndices = <<>>
               THEN Answered(p, "payItems", FALSE, 0, 0)
               ELSE [pc |-> "payItems:save", id |-> id, validIndices |-> validIndices,
                     doc |-> invoices[id], paid |-> @.paid]]
    /\ UNCHANGED <<now, steps, visits, invoices, payments, last,
                   dispensings, batches, stockMovements>>

\* pay-items, invoice.payItems() and invoice.save(); a VersionError is
\* answered with status 500.
PayItemsSave(p) ==
    /\ procs[p].pc = "payItems:save"
    /\ LET id == procs[p].id
           base == procs[p].doc
           r == PayItems(base, procs[p].validIndices, "cash", now)
           mem == PreSave(r.inv, TRUE, now)
       IN  \E checked \in VersionChecks(base, mem) :
              IF checked /\ Stale(invoices[id], base)
              THEN /\ procs' = [procs EXCEPT ![p] = Answered(p, "payItems", FALSE, 0, 0)]
                   /\ UNCHANGED invoices
              ELSE /\ invoices' = [invoices EXCEPT ![id] = ApplyDelta(@, base, mem)]
                   /\ procs' = [procs EXCEPT ![p] =
                          [pc |-> "payItems:visit", id |-> id,
                           validIndices |-> @.validIndices, amount |-> r.ret,
                           doc |-> mem, paid |-> @.paid]]
    /\ UNCHANGED <<now, steps, visits, payments, last,
                   dispensings, batches, stockMovements>>

\* pay-items, the visit updates from the document in memory; 200 is answered.
PayItemsVisit(p) ==
    /\ procs[p].pc = "payItems:visit"
    /\ LET doc == procs[p].doc
           paidItems == PaidItems(doc, procs[p].validIndices)
           consultationPaid ==
               \E k \in DOMAIN paidItems : paidItems[k].type = "consultation"
           vis1 == IF consultationPaid THEN CheckAndUpdateVisitStatus(visits, doc)
                   ELSE visits
       IN  visits' = IF doc.visit \in DOMAIN vis1
                     THEN [vis1 EXCEPT ![doc.visit] = UpdateVisitOrderStatuses(@, paidItems)]
                     ELSE vis1
    /\ procs' = [procs EXCEPT ![p] =
           Answered(p, "payItems", TRUE, procs[p].id, procs[p].amount)]
    /\ UNCHANGED <<now, steps, invoices, payments, last,
                   dispensings, batches, stockMovements>>

\* A visit is opened for a patient, without a consultation service on file.
OpenVisit(p) ==
    /\ Len(visits) < MaxVisits
    /\ CreateVisit(p, FALSE, 0)

Next ==
    \/ Tick
    \/ \E p \in Patients, hasService \in BOOLEAN : CreateVisit(p, hasService, 0)
    \/ \E r \in InvoiceRequests, dt \in {0, 1} :
          \E failing \in SUBSET {"mirror", "notification"} : PostInvoice(r, dt, failing)
    \/ \E v \in 1..MaxVisits, hasService \in BOOLEAN : AddLabOrder(v, hasService)
    \/ \E id \in 1..MaxInvoices, r \in PaymentRequests :
          \E gatewayResponse \in GatewayResponses(r.method) :
             \E failing \in SUBSET {"notification"} :
                ProcessPayment(id, r.amount, r.method, gatewayResponse, failing)
    \/ \E id \in 1..MaxInvoices, r \in PayItemsRequests :
          PayItemsRequest(id, r.itemIndices, r.method)
    \/ \E paymentId \in 1..MaxPayments, amount \in 1..MaxAmount :
          ProcessRefund(paymentId, amount)
    \/ \E id \in 1..MaxInvoices, coveragePercentage \in {0, 100} :
          \E failing \in SUBSET {"claim"} :
             ProcessInsuranceClaim(id, coveragePercentage, failing)
    \/ \E id \in 1..MaxInvoices, body \in UpdateBodies : UpdateInvoice(id, body)
    \/ CheckOverdueInvoices
    \/ \E v \in 1..MaxVisits : ConfirmPayment(v)
    \/ \E v \in 1..MaxVisits : StartVisit(v)
    \/ \E v \in 1..MaxVisits : EndVisit(v)

Spec == Init /\ [][Next]_vars

\* The receptionist's payment-status request for a visit, which may be made
\* at any time and any number of times.
Reconcile(v) ==
    /\ ConfirmPaymentVisit(v)
    /\ UNCHANGED <<steps, procs, dispensings, batches, stockMovements>>

\* The requests handled one at a time, and the payment-status request made
\* again and again.
NextReconcile ==
    \/ Next
    \/ \E v \in 1..MaxVisits : Reconcile(v)

\* Every visit's payment-status request is eventually made while it would
\* change something.
SpecReconcile ==
    /\ Init
    /\ [][NextReconcile]_vars
    /\ \A v \in 1..MaxVisits : WF_vars(Reconcile(v))

\* Bounds of the visits with several orders: the orders of a visit, the items
\* and the ledger entries of its invoice.
MaxLabOrders == 2
MaxOrderItems == 3
MaxOrderLedger == 2

\* itemIndices of the pay-items requests for a visit with several orders:
\* every single item and every pair of items.
OrderIndexLists ==
    {<<i>> : i \in 1..MaxOrderItems}
        \cup {<<i, j>> : i \in 1..MaxOrderItems, j \in 2..MaxOrderItems}

\* POST /api/visits/:id/lab-orders for any of the tests, on a visit that may
\* hold several orders.
OrderLabTest(v, testName, hasService) ==
    /\ CheckPaymentEligibility(v)
    /\ Len(visits[v].labOrders) < MaxLabOrders
    /\ LET r == LabOrdersRoute(visits, invoices, v, testName, hasService, now)
       IN  /\ r.billed => /\ visits[v].invoice \in DOMAIN invoices
                          /\ Len(invoices[visits[v].invoice].items) < MaxOrderItems
           /\ visits' = r.visits
           /\ invoices' = r.invoices
           /\ last' = Done("addLabOrder", visits[v].invoice, TRUE, 0,
                           [visit |-> v, billed |-> r.billed])
    /\ UNCHANGED <<now, steps, payments, procs,
                   dispensings, batches, stockMovements>>

\* POST /api/billing/invoices/:invoiceId/pay-items in cash, on the invoice of
\* a visit that may hold several orders.
PayOrderItems(id, itemIndices) ==
    /\ id \in DOMAIN invoices
    /\ Len(invoices[id].payments) < MaxOrderLedger
    /\ LET r == PayItemsRoute(invoices, visits, id, itemIndices, "cash", now)
       IN  /\ invoices' = r.invoices
           /\ visits' = r.visits
           /\ last' = Done("payItems", id, r.http = 200, r.ret,
                           [itemIndices |-> itemIndices, method |-> "cash",
                            marked |-> IF r.http = 200
                                       THEN PayItemsMarked(invoices[id], itemIndices)
                                       ELSE {}])
    /\ UNCHANGED <<now, steps, payments, procs,
                   dispensings, batches, stockMovements>>

\* A visit is opened with its consultation invoice, time passes, tests are
\* ordered and invoice items are paid.
NextOrders ==
    \/ \E p \in Patients : CreateVisit(p, TRUE, 0)
    \/ Tick
    \/ \E v \in 1..MaxVisits, testName \in TestNames, hasService \in BOOLEAN :
          OrderLabTest(v, testName, hasService)
    \/ \E id \in 1..MaxInvoices, itemIndices \in OrderIndexLists :
          PayOrderItems(id, itemIndices)

SpecOrders == Init /\ [][NextOrders]_vars

\* The visits open while invoices are created concurrently.
MaxOpenVisits == 2

\* POST /api/visits while the consultation service is not on file: the visit
\* is opened without an invoice.
OpenVisits(p) == PostVisit(p, FALSE, 0, MaxOpenVisits)

\* Visits are opened and concurrent callers create their invoices.
NextNumbers ==
    \/ \E p \in Patients : OpenVisits(p)
    \/ \E p \in Procs, v \in 1..MaxOpenVisits : CreateInvoiceFind(p, v, ConcurrentItems)
    \/ \E p \in Procs : CreateInvoiceNumber(p)
    \/ \E p \in Procs : CreateInvoiceSave(p)
    \/ \E p \in Procs : CreateInvoiceAfter(p)

SpecNumbers == Init /\ [][NextNumbers]_vars

\* Items with every combination of quantity, discount and tax; the price,
\* the discount and the tax are values whose percentages are whole numbers.
CalculatorItems ==
    {NewItem("lab_test", quantity, 100, discount, discountType, tax, taxType) :
        quantity \in {1, 2}, discount \in {0, 10}, discountType \in {"fixed", "percentage"},
        tax \in {0, 10}, taxType \in {"fixed", "percentage"}}

\* Item lists of a document in memory: one item, or a consultation and one
\* item; covered says whether the items are covered by insurance and
\* approved.
CalculatorItemLists ==
    LET Covered(items, covered) ==
            [i \in DOMAIN items |-> [items[i] EXCEPT !.coveredByInsurance = covered,
                                                     !.insuranceApproved = covered]]
    IN  {Covered(items, covered) :
            items \in {<<a>> : a \in CalculatorItems}
                         \cup {<<ServiceItem("consultation", 100), a>> : a \in CalculatorItems},
            covered \in BOOLEAN}

\* Ledgers of a document in memory: empty, one payment, a payment and its
\* partial refund.
CalculatorLedgers ==
    { <<>>,
      <<[amount |-> 100, method |-> "cash", itemIndices |-> <<>>]>>,
      <<[amount |-> 100, method |-> "cash", itemIndices |-> <<>>],
        [amount |-> 0 - 50, method |-> "cash", itemIndices |-> <<>>]>> }

\* An invoice document in memory whose items, ledger or coverage amount were
\* just assigned, before calculateTotals runs.
CalculatorInvoices ==
    {[NewInvoice([patient |-> 1, visit |-> 0, items |-> items,
                  paymentTerms |-> "immediate"], 1, 0)
        EXCEPT !.items = items, !.payments = ledger, !.coverageAmount = coverage] :
        items \in CalculatorItemLists, ledger \in CalculatorLedgers,
        coverage \in {0, 50}}

\* One invoice document, taken from those above.
InitCalculator ==
    /\ now = 0
    /\ steps = 0
    /\ visits = <<>>
    /\ invoices \in {<<inv>> : inv \in CalculatorInvoices}
    /\ payments = <<>>
    /\ last = Done("none", 0, TRUE, 0, [dt |-> 0])
    /\ procs = [p \in Procs |-> Idle]
    /\ dispensings = <<>>
    /\ batches = StockedBatches
    /\ stockMovements = <<>>

\* invoice.calculateTotals() on the document.
Recalculate(id) ==
    /\ Step
    /\ id \in DOMAIN invoices
    /\ invoices' = [invoices EXCEPT ![id] = CalculateTotals(@, now)]
    /\ last' = Done("calculateTotals", id, TRUE, 0,
                    [again |-> last.op = "calculateTotals"])
    /\ UNCHANGED <<now, visits, payments>>

NextCalculator ==
    \/ Tick
    \/ \E id \in 1..MaxInvoices : Recalculate(id)

SpecCalculator == InitCalculator /\ [][NextCalculator]_vars

\* PATCH /api/visits/:id/end-visit: the visit's isActive flag is inverted.
EndVisitRoute(v) ==
    /\ Step
    /\ IF v \notin DOMAIN visits
       THEN /\ last' = Done("endVisitRoute", 0, FALSE, 0, [visit |-> v])
            /\ UNCHANGED visits
       ELSE /\ visits' = [visits EXCEPT ![v].isActive = ~@]
            /\ last' = Done("endVisitRoute", visits[v].invoice, TRUE, 0, [visit |-> v])
    /\ UNCHANGED <<now, invoices, payments>>

\* Visits are opened and ended at the reception.
NextVisits ==
    \/ \E p \in Patients, hasService \in BOOLEAN : PostVisit(p, hasService, 0, MaxOpenVisits)
    \/ \E v \in 1..MaxOpenVisits : EndVisitRoute(v)

SpecVisits == Init /\ [][NextVisits]_vars

\* Bounds of the visits the projector is applied to: the orders of each kind,
\* the paid items handed over, the creation times of the orders, and the
\* number of calls made on one visit.
MaxProjectedLabOrders == 3
MaxProjectedOrders == 1
MaxPaidItems == 3
MaxCreatedAt == 1
MaxProjections == 1

\* Order arrays of at most n orders, each in Pending Payment or in Pending.
OrderArrays(n) ==
    UNION {[1..k -> [testName : {"CBC"}, status : {"Pending Payment", "Pending"},
                     createdAt : 0..MaxCreatedAt]] : k \in 0..n}

\* The item types in the order the lists below keep them.
TypeRank(type) ==
    CASE type = "consultation" -> 0
      [] type = "lab_test" -> 1
      [] type = "imaging" -> 2
      [] type = "medication" -> 3

\* paidItems of a call: up to MaxPaidItems items, those of a type together.
PaidItemLists ==
    LET Types == {"consultation", "lab_test", "imaging", "medication"}
        Lists == UNION {[1..k -> Types] : k \in 1..MaxPaidItems}
    IN  {[i \in DOMAIN l |-> ServiceItem(l[i], LabTestFee)] :
            l \in {m \in Lists :
                      \A i \in 1..(Len(m) - 1) : TypeRank(m[i]) <= TypeRank(m[i + 1])}}

\* An uninsured patient's visit with orders of the three kinds.
InitProjector ==
    /\ now = MaxCreatedAt
    /\ steps = 0
    /\ visits \in {<<[NewVisit(1, "In Queue") EXCEPT !.labOrders = l,
                                                       !.radiologyOrders = r,
                                                       !.prescriptions = m]>> :
                       l \in OrderArrays(MaxProjectedLabOrders),
                       r \in OrderArrays(MaxProjectedOrders),
                       m \in OrderArrays(MaxProjectedOrders)}
    /\ invoices = <<>>
    /\ payments = <<>>
    /\ last = Done("none", 0, TRUE, 0, [dt |-> 0])
    /\ procs = [p \in Procs |-> Idle]
    /\ dispensings = <<>>
    /\ batches = StockedBatches
    /\ stockMovements = <<>>

\* updateVisitOrderStatuses(visit, paidItems)
Project(v, paidItems) ==
    /\ steps < MaxProjections
    /\ steps' = steps + 1
    /\ v \in DOMAIN visits
    /\ visits' = [visits EXCEPT ![v] = UpdateVisitOrderStatuses(@, paidItems)]
    /\ last' = Done("updateVisitOrderStatuses", 0, TRUE, 0,
                    [visit |-> v, paidItems |-> paidItems, before |-> visits[v]])
    /\ UNCHANGED <<now, invoices, payments, procs,
                   dispensings, batches, stockMovements>>

NextProjector == \E v \in 1..MaxVisits, paidItems \in PaidItemLists : Project(v, paidItems)

SpecProjector == InitProjector /\ [][NextProjector]_vars

\* Bounds of the documents addPayment is applied to: the items of a document,
\* the amount of a call, and the calls made on one document.
MaxLegacyItems == 3
MaxLegacyAmount == 6
MaxLegacyCalls == 2

\* Items of the documents addPayment is applied to: free, or at one of two
\* prices; paid already, or not.
LegacyItems ==
    {[ServiceItem("lab_test", price) EXCEPT !.paid = paid,
                                            !.paidAt = IF paid THEN 0 ELSE NoDate] :
        price \in {0, 2, 3}, paid \in BOOLEAN}

\* An invoice as loaded: up to MaxLegacyItems items, no payment yet, totals
\* as calculateTotals left them.
LegacyInvoices ==
    {CalculateTotals(
        [NewInvoice([patient |-> 1, visit |-> 0, items |-> items,
                     paymentTerms |-> "immediate"], 1, 0)
            EXCEPT !.items = items], 0) :
        items \in UNION {[1..n -> LegacyItems] : n \in 1..MaxLegacyItems}}

\* One invoice document, taken from those above.
InitLegacy ==
    /\ now = 0
    /\ steps = 0
    /\ visits = <<>>
    /\ invoices \in {<<inv>> : inv \in LegacyInvoices}
    /\ payments = <<>>
    /\ last = Done("none", 0, TRUE, 0, [dt |-> 0])
    /\ procs = [p \in Procs |-> Idle]
    /\ dispensings = <<>>
    /\ batches = StockedBatches
    /\ stockMovements = <<>>

\* invoice.addPayment(amount) on the document.
ApplyPayment(id, amount) ==
    /\ steps < MaxLegacyCalls
    /\ steps' = steps + 1
    /\ id \in DOMAIN invoices
    /\ invoices' = [invoices EXCEPT ![id] = AddPayment(@, amount, now)]
    /\ last' = Done("addPayment", id, TRUE, 0,
                    [amount |-> amount, before |-> invoices[id]])
    /\ UNCHANGED <<now, visits, payments, procs,
                   dispensings, batches, stockMovements>>

NextLegacy == \E id \in 1..MaxInvoices, amount \in 1..MaxLegacyAmount : ApplyPayment(id, amount)

SpecLegacy == InitLegacy /\ [][NextLegacy]_vars

\* The requests of concurrent callers.
NextConcurrent ==
    \/ \E p \in Patients : OpenVisit(p)
    \/ \E p \in Procs, v \in 1..MaxVisits : CreateInvoiceFind(p, v, ConcurrentItems)
    \/ \E p \in Procs : CreateInvoiceNumber(p)
    \/ \E p \in Procs : CreateInvoiceSave(p)
    \/ \E p \in Procs : CreateInvoiceAfter(p)
    \/ \E p \in Procs, id \in 1..MaxInvoices, amount \in 1..ConsultationFee :
          PaymentLoad(p, id, amount)
    \/ \E p \in Procs : PaymentRecord(p)
    \/ \E p \in Procs : PaymentSave(p)
    \/ \E p \in Procs : PaymentVisit(p)
    \/ \E p \in Procs, id \in 1..MaxInvoices, i \in 1..MaxItems :
          PayItemsLoad(p, id, <<i>>)
    \/ \E p \in Procs : PayItemsSave(p)
    \/ \E p \in Procs : PayItemsVisit(p)

SpecConcurrent == Init /\ [][NextConcurrent]_vars

\* Invoices are created and then paid, by processPayment and by pay-items
\* requests only.
NextPayments ==
    \/ \E r \in InvoiceRequests : PostInvoice(r, 0, {})
    \/ \E id \in 1..MaxInvoices, r \in PaymentRequests :
          \E gatewayResponse \in GatewayResponses(r.method) :
             ProcessPayment(id, r.amount, r.method, gatewayResponse, {})
    \/ \E id \in 1..MaxInvoices, r \in PayItemsRequests :
          PayItemsRequest(id, r.itemIndices, r.method)

SpecPayments == Init /\ [][NextPayments]_vars

-----------------------------------------------------------------------------
(* Pharmacy: prescriptions on the visit and the dispensing controller *)

MaxPrescriptions == 2
MaxQuantity == 3

\* The price the ItemPrice collection holds for the medicine.
MedicationPrice == 1

\* The enums of the order sub-schemas of the Visit model.
PrescriptionStatuses == {"Pending Payment", "Pending", "Dispensed"}

LabOrderStatuses == {"Pending Payment", "Pending", "Completed", "Cancelled"}

RadiologyStatuses ==
    {"Pending Payment", "Pending", "In Progress", "Completed", "Cancelled"}

\* The validation visit.save() runs on the order sub-documents: a status
\* outside the sub-schema's enum is a ValidationError and nothing is stored.
ValidVisit(visit) ==
    /\ \A i \in DOMAIN visit.prescriptions :
          visit.prescriptions[i].status \in PrescriptionStatuses
    /\ \A i \in DOMAIN visit.labOrders :
          visit.labOrders[i].status \in LabOrderStatuses
    /\ \A i \in DOMAIN visit.radiologyOrders :
          visit.radiologyOrders[i].status \in RadiologyStatuses

\* The invoice line the prescriptions route builds.
MedicationItem(price) == ServiceItem("medication", price)

\* POST /api/visits/:id/prescriptions on the collections.  known says
\* whether the Medicine collection holds the medication, price is the price
\* found for it (0: none configured).
PrescriptionsRoute(vis, invs, v, known, price, t) ==
    LET hasInsurance == HasInsurance(vis[v].patient)
        newPrescription ==
            [medication |-> "medicine",
             status |-> IF hasInsurance THEN "Pending" ELSE "Pending Payment",
             createdAt |-> t, isActive |-> TRUE]
    IN  IF ~known THEN [visits |-> vis, invoices |-> invs, http |-> 404]
        ELSE IF price <= 0 THEN [visits |-> vis, invoices |-> invs, http |-> 400]
        ELSE [visits |-> [vis EXCEPT ![v].prescriptions = Append(@, newPrescription)],
              invoices |-> IF vis[v].invoice # 0
                           THEN AddItemsToInvoice(invs, vis[v].invoice,
                                    <<MedicationItem(price)>>, hasInsurance, t)
                           ELSE invs,
              http |-> 201]

\* POST /api/visits/:id/prescriptions
AddPrescription(v, known, price) ==
    /\ CheckPaymentEligibility(v)
    /\ Len(visits[v].prescriptions) < MaxPrescriptions
    /\ visits[v].invoice # 0 =>
          /\ visits[v].invoice \in DOMAIN invoices
          /\ Len(invoices[visits[v].invoice].items) < MaxOrderItems
    /\ LET r == PrescriptionsRoute(visits, invoices, v, known, price, now)
       IN  /\ visits' = r.visits
           /\ invoices' = r.invoices
           /\ last' = Done("addPrescription", visits[v].invoice, r.http = 201, r.http,
                           [visit |-> v, prescription |-> Len(r.visits[v].prescriptions)])
    /\ UNCHANGED <<now, steps, payments, procs,
                   dispensings, batches, stockMovements>>

\* dispensePrescription without its payment check.
DispenseRefusedUngated(vis, v, i) ==
    IF v \notin DOMAIN vis THEN 404
    ELSE IF i \notin DOMAIN vis[v].prescriptions THEN 404
    ELSE IF vis[v].prescriptions[i].status = "Dispensed" THEN 400
    ELSE 0

\* dispensePrescription, the checks before anything is written: the status
\* it answers with, 0 when it goes on.
DispenseRefused(vis, v, i) ==
    IF v \notin DOMAIN vis THEN 404
    ELSE IF i \notin DOMAIN vis[v].prescriptions THEN 404
    ELSE IF vis[v].prescriptions[i].status = "Dispensed" THEN 400
    ELSE IF vis[v].prescriptions[i].status = "Pending Payment" THEN 400
    ELSE 0

\* The Dispensing document: quantity || 1.  A request without a quantity
\* carries quantity 0 here.
DispensingRecord(v, i, quantity) ==
    [visit |-> v, prescription |-> i,
     quantity |-> IF quantity = 0 THEN 1 ELSE quantity]

\* One turn of the FIFO loop on a batch read with quantityRemaining q.
DeductFromThisBatch(remainingToDispense, q) == Min(remainingToDispense, q)

RECURSIVE DeductFifo(_, _, _)
\* The batches as the FIFO loop leaves them, from batch b on: the batches
\* with nothing remaining are not among those found.
DeductFifo(bs, b, remainingToDispense) ==
    IF b > Len(bs) \/ remainingToDispense <= 0 THEN bs
    ELSE DeductFifo([bs EXCEPT ![b] = @ - DeductFromThisBatch(remainingToDispense, @)],
                    b + 1,
                    remainingToDispense - DeductFromThisBatch(remainingToDispense, bs[b]))

\* The StockMovement documents of a deduction that took bs to bs1.
Movements(bs, bs1, v, i) ==
    LET moved == SelectSeq([b \in DOMAIN bs |-> b], LAMBDA b : bs[b] # bs1[b])
    IN  [k \in DOMAIN moved |->
            [batch |-> moved[k], quantity |-> bs[moved[k]] - bs1[moved[k]],
             visit |-> v, prescription |-> i]]

\* The prescription as dispensePrescription saves it (the sub-schema has no
\* dispensedBy, dispensedAt or dispensingNotes path).
Dispensed(prescription) ==
    [prescription EXCEPT !.status = "Dispensed", !.isActive = FALSE]

\* POST /api/dispensing/dispense, handled without another request in between.
DispensePrescription(v, i, quantity) ==
    /\ LET refused == DispenseRefused(visits, v, i)
           bs1 == IF quantity > 0 THEN DeductFifo(batches, 1, quantity) ELSE batches
           arg == [visit |-> v, prescription |-> i, quantity |-> quantity]
       IN  IF refused # 0
           THEN /\ last' = Done("dispense", 0, FALSE, refused, arg)
                /\ UNCHANGED <<visits, dispensings, batches, stockMovements>>
           ELSE /\ dispensings' = Append(dispensings, DispensingRecord(v, i, quantity))
                /\ batches' = bs1
                /\ stockMovements' = stockMovements \o Movements(batches, bs1, v, i)
                /\ visits' = [visits EXCEPT ![v].prescriptions[i] = Dispensed(@)]
                /\ last' = Done("dispense", 0, TRUE, 200, arg)
    /\ UNCHANGED <<now, steps, invoices, payments, procs>>

\* What markPrescriptionUnavailable and returnPrescriptionToDoctor do with
\* the prescription they were asked to set to status, keeping or clearing
\* isActive: the visits afterwards and the status answered.
SetPrescriptionAside(vis, v, i, hasReason, status, isActive) ==
    LET doc == [vis[v] EXCEPT !.prescriptions[i].status = status,
                              !.prescriptions[i].isActive = isActive]
    IN  IF ~hasReason THEN [visits |-> vis, http |-> 400]
        ELSE IF v \notin DOMAIN vis THEN [visits |-> vis, http |-> 404]
        ELSE IF i \notin DOMAIN vis[v].prescriptions THEN [visits |-> vis, http |-> 404]
        ELSE IF vis[v].prescriptions[i].status = "Dispensed"
        THEN [visits |-> vis, http |-> 400]
        ELSE IF ~ValidVisit(doc) THEN [visits |-> vis, http |-> 500]
        ELSE [visits |-> [vis EXCEPT ![v] = doc], http |-> 200]

\* POST /api/dispensing/mark-unavailable
MarkPrescriptionUnavailable(v, i, hasReason) ==
    /\ LET r == SetPrescriptionAside(visits, v, i, hasReason, "Unavailable", FALSE)
       IN  /\ visits' = r.visits
           /\ last' = Done("markUnavailable", 0, r.http = 200, r.http,
                           [visit |-> v, prescription |-> i, quantity |-> 0])
    /\ UNCHANGED <<now, steps, invoices, payments, procs,
                   dispensings, batches, stockMovements>>

\* POST /api/dispensing/return-to-doctor
ReturnPrescriptionToDoctor(v, i, hasReason) ==
    /\ LET r == SetPrescriptionAside(visits, v, i, hasReason, "Returned to Doctor",
                                     IF v \in DOMAIN visits /\ i \in DOMAIN visits[v].prescriptions
                                     THEN visits[v].prescriptions[i].isActive
                                     ELSE TRUE)
       IN  /\ visits' = r.visits
           /\ last' = Done("returnToDoctor", 0, r.http = 200, r.http,
                           [visit |-> v, prescription |-> i, quantity |-> 0])
    /\ UNCHANGED <<now, steps, invoices, payments, procs,
                   dispensings, batches, stockMovements>>

\* A visit is opened with its consultation invoice, medicines are
\* prescribed, invoice items are paid and the pharmacy handles the
\* prescriptions.
NextDispensing ==
    \/ \E p \in Patients : CreateVisit(p, TRUE, 0)
    \/ \E v \in 1..MaxVisits, known \in BOOLEAN, price \in {0, MedicationPrice} :
          AddPrescription(v, known, price)
    \/ \E id \in 1..MaxInvoices, itemIndices \in OrderIndexLists :
          PayOrderItems(id, itemIndices)
    \/ \E v \in 1..MaxVisits, i \in 1..MaxPrescriptions, quantity \in 0..MaxQuantity :
          DispensePrescription(v, i, quantity)
    \/ \E v \in 1..MaxVisits, i \in 1..MaxPrescriptions, hasReason \in BOOLEAN :
          MarkPrescriptionUnavailable(v, i, hasReason)
    \/ \E v \in 1..MaxVisits, i \in 1..MaxPrescriptions, hasReason \in BOOLEAN :
          ReturnPrescriptionToDoctor(v, i, hasReason)

SpecDispensing == Init /\ [][NextDispensing]_vars

-----------------------------------------------------------------------------
(* Laboratory and radiology: the orders of a visit and the routes that work
   on them *)

MaxRadiologyOrders == 1
MaxWorkedLabOrders == 1

\* The price the Service collection holds for a scan.
ImagingFee == 1

\* POST /api/visits/:id/radiology-orders on the collections.
RadiologyOrdersRoute(vis, invs, v, hasService, t) ==
    LET hasInsurance == HasInsurance(vis[v].patient)
        newRadiologyOrder ==
            [scanType |-> "X-Ray",
             status |-> IF hasInsurance THEN "Pending" ELSE "Pending Payment",
             createdAt |-> t]
    IN  [visits |-> [vis EXCEPT ![v].radiologyOrders = Append(@, newRadiologyOrder)],
         invoices |-> IF vis[v].invoice # 0 /\ hasService
                      THEN AddItemsToInvoice(invs, vis[v].invoice,
                               <<ServiceItem("imaging", ImagingFee)>>, hasInsurance, t)
                      ELSE invs]

\* POST /api/visits/:id/radiology-orders
OrderRadiology(v, hasService) ==
    /\ CheckPaymentEligibility(v)
    /\ Len(visits[v].radiologyOrders) < MaxRadiologyOrders
    /\ (visits[v].invoice # 0 /\ hasService) =>
          /\ visits[v].invoice \in DOMAIN invoices
          /\ Len(invoices[visits[v].invoice].items) < MaxOrderItems
    /\ LET r == RadiologyOrdersRoute(visits, invoices, v, hasService, now)
       IN  /\ visits' = r.visits
           /\ invoices' = r.invoices
           /\ last' = Done("addRadiologyOrder", visits[v].invoice, TRUE, 201,
                           [visit |-> v, order |-> Len(r.visits[v].radiologyOrders)])
    /\ UNCHANGED <<now, steps, payments, procs,
                   dispensings, batches, stockMovements>>

\* The statuses a status request may name, and one it may not.
StatusBodies == {"Pending", "In Progress", "Completed", "Cancelled", "Pending Payment"}

\* validStatuses of the two status routes.
ValidStatuses == {"Pending", "In Progress", "Completed", "Cancelled"}

\* What a lab or radiology route answers after it changed the visit in
\* memory to doc: visit.save() validates, and a ValidationError is answered
\* with 500, nothing stored.
SaveVisit(vis, v, doc) ==
    IF ValidVisit(doc) THEN [visits |-> [vis EXCEPT ![v] = doc], http |-> 200]
    ELSE [visits |-> vis, http |-> 500]

\* The order with the field set on it (results and findings are strings; the
\* model keeps whether one was recorded).
Recorded(order, field) ==
    [f \in DOMAIN order \cup {field} |-> IF f = field THEN TRUE ELSE order[f]]

\* PATCH /api/lab-tests/:id/results
LabTestResults(v, i, hasResults) ==
    /\ LET found == v \in DOMAIN visits /\ i \in DOMAIN visits[v].labOrders
           r == IF ~hasResults THEN [visits |-> visits, http |-> 400]
                ELSE IF ~found THEN [visits |-> visits, http |-> 404]
                ELSE SaveVisit(visits, v,
                         [visits[v] EXCEPT !.labOrders[i] =
                             Recorded([@ EXCEPT !.status = "Completed"], "results")])
       IN  /\ visits' = r.visits
           /\ last' = Done("labResults", 0, r.http = 200, r.http,
                           [visit |-> v, order |-> i])
    /\ UNCHANGED <<now, steps, invoices, payments, procs,
                   dispensings, batches, stockMovements>>

\* PATCH /api/lab-tests/:id/status
LabTestStatus(v, i, status) ==
    /\ LET found == v \in DOMAIN visits /\ i \in DOMAIN visits[v].labOrders
           r == IF status \notin ValidStatuses THEN [visits |-> visits, http |-> 400]
                ELSE IF ~found THEN [visits |-> visits, http |-> 404]
                ELSE SaveVisit(visits, v,
                         [visits[v] EXCEPT !.labOrders[i].status = status])
       IN  /\ visits' = r.visits
           /\ last' = Done("labStatus", 0, r.http = 200, r.http,
                           [visit |-> v, order |-> i])
    /\ UNCHANGED <<now, steps, invoices, payments, procs,
                   dispensings, batches, stockMovements>>

\* PUT /api/radiology/:id with a body that carries findings, a status (""
\* when it carries none), or both; the status is not checked by the route.
RadiologyUpdate(v, i, hasFindings, status) ==
    /\ LET found == v \in DOMAIN visits /\ i \in DOMAIN visits[v].radiologyOrders
           order == visits[v].radiologyOrders[i]
           withFindings == IF hasFindings THEN Recorded(order, "findings") ELSE order
           r == IF ~found THEN [visits |-> visits, http |-> 404]
                ELSE SaveVisit(visits, v,
                         [visits[v] EXCEPT !.radiologyOrders[i] =
                             IF status # ""
                             THEN [withFindings EXCEPT !.status = status]
                             ELSE withFindings])
       IN  /\ visits' = r.visits
           /\ last' = Done("radiologyUpdate", 0, r.http = 200, r.http,
                           [visit |-> v, order |-> i])
    /\ UNCHANGED <<now, steps, invoices, payments, procs,
                   dispensings, batches, stockMovements>>

\* PATCH /api/radiology/:id/status
RadiologyStatus(v, i, status) ==
    /\ LET found == v \in DOMAIN visits /\ i \in DOMAIN visits[v].radiologyOrders
           r == IF status \notin ValidStatuses THEN [visits |-> visits, http |-> 400]
                ELSE IF ~found THEN [visits |-> visits, http |-> 404]
                ELSE SaveVisit(visits, v,
                         [visits[v] EXCEPT !.radiologyOrders[i].status = status])
       IN  /\ visits' = r.visits
           /\ last' = Done("radiologyStatus", 0, r.http = 200, r.http,
                           [visit |-> v, order |-> i])
    /\ UNCHANGED <<now, steps, invoices, payments, procs,
                   dispensings, batches, stockMovements>>

\* A visit is opened with its consultation invoice, a lab test and a scan
\* are ordered, invoice items are paid, and the laboratory and the radiology
\* unit work on the orders.
NextDiagnostics ==
    \/ \E p \in Patients : CreateVisit(p, TRUE, 0)
    \/ \E v \in DOMAIN visits, hasService \in BOOLEAN :
          /\ Len(visits[v].labOrders) < MaxWorkedLabOrders
          /\ OrderLabTest(v, "CBC", hasService)
    \/ \E v \in 1..MaxVisits, hasService \in BOOLEAN : OrderRadiology(v, hasService)
    \/ \E id \in 1..MaxInvoices, i \in 1..MaxOrderItems : PayOrderItems(id, <<i>>)
    \/ \E v \in 1..MaxVisits, i \in 1..MaxWorkedLabOrders, hasResults \in BOOLEAN :
          LabTestResults(v, i, hasResults)
    \/ \E v \in 1..MaxVisits, i \in 1..MaxWorkedLabOrders, status \in StatusBodies :
          LabTestStatus(v, i, status)
    \/ \E v \in 1..MaxVisits, i \in 1..MaxRadiologyOrders :
          \E hasFindings \in BOOLEAN, status \in StatusBodies \cup {""} :
             RadiologyUpdate(v, i, hasFindings, status)
    \/ \E v \in 1..MaxVisits, i \in 1..MaxRadiologyOrders, status \in StatusBodies :
          RadiologyStatus(v, i, status)

SpecDiagnostics == Init /\ [][NextDiagnostics]_vars

-----------------------------------------------------------------------------
(* Pharmacy: dispensePrescription, one await at a time *)

MaxRacedPrescriptions == 1
MaxRacedQuantity == 2

\* dispensePrescription, Visit.findOne and the checks on the document read.
DispenseLoad(p, v, i, quantity) ==
    /\ Free(p)
    /\ LET refused == DispenseRefused(visits, v, i)
       IN  procs' = [procs EXCEPT ![p] =
               IF refused # 0
               THEN Answered(p, "dispense", FALSE, refused, 0)
               ELSE [pc |-> "dispense:create", visit |-> v, prescription |-> i,
                     quantity |-> quantity, paid |-> @.paid]]
    /\ UNCHANGED <<now, steps, visits, invoices, payments, last,
                   dispensings, batches, stockMovements>>

\* dispensePrescription, Dispensing.create.
DispenseCreate(p) ==
    /\ procs[p].pc = "dispense:create"
    /\ dispensings' = Append(dispensings,
           DispensingRecord(procs[p].visit, procs[p].prescription, procs[p].quantity))
    /\ procs' = [procs EXCEPT ![p].pc = "dispense:find"]
    /\ UNCHANGED <<now, steps, visits, invoices, payments, last,
                   batches, stockMovements>>

\* The first batch from b on that the query returned (0: none is left).
NextBatch(snap, b) ==
    IF \E c \in b..Len(snap) : snap[c] > 0
    THEN CHOOSE c \in b..Len(snap) : snap[c] > 0 /\ \A d \in b..(c - 1) : snap[d] = 0
    ELSE 0

\* dispensePrescription, Medicine.findOne and MedicineBatch.find: the
\* batches are read once; a request without a quantity skips the stock.
DispenseFind(p) ==
    /\ procs[p].pc = "dispense:find"
    /\ procs' = [procs EXCEPT ![p] =
           IF procs[p].quantity > 0 /\ NextBatch(batches, 1) # 0
           THEN [pc |-> "dispense:deduct", visit |-> @.visit,
                 prescription |-> @.prescription, quantity |-> @.quantity,
                 snap |-> batches, b |-> NextBatch(batches, 1),
                 remainingToDispense |-> @.quantity, paid |-> @.paid]
           ELSE [pc |-> "dispense:save", visit |-> @.visit,
                 prescription |-> @.prescription, quantity |-> @.quantity,
                 paid |-> @.paid]]
    /\ UNCHANGED <<now, steps, visits, invoices, payments, last,
                   dispensings, batches, stockMovements>>

\* dispensePrescription, one turn of the FIFO loop: batch.save() writes the
\* quantity computed from the batch as it was read, and StockMovement.create.
DispenseDeduct(p) ==
    /\ procs[p].pc = "dispense:deduct"
    /\ LET b == procs[p].b
           snap == procs[p].snap
           deduct == DeductFromThisBatch(procs[p].remainingToDispense, snap[b])
           left == procs[p].remainingToDispense - deduct
       IN  /\ batches' = [batches EXCEPT ![b] = snap[b] - deduct]
           /\ stockMovements' = Append(stockMovements,
                  [batch |-> b, quantity |-> deduct,
                   visit |-> procs[p].visit, prescription |-> procs[p].prescription])
           /\ procs' = [procs EXCEPT ![p] =
                  IF left > 0 /\ NextBatch(snap, b + 1) # 0
                  THEN [@ EXCEPT !.b = NextBatch(snap, b + 1),
                                 !.remainingToDispense = left]
                  ELSE [pc |-> "dispense:save", visit |-> @.visit,
                        prescription |-> @.prescription, quantity |-> @.quantity,
                        paid |-> @.paid]]
    /\ UNCHANGED <<now, steps, visits, invoices, payments, last, dispensings>>

\* dispensePrescription, visit.save() of the status and isActive paths of the
\* prescription; 200 is answered.
DispenseSave(p) ==
    /\ procs[p].pc = "dispense:save"
    /\ visits' = [visits EXCEPT
           ![procs[p].visit].prescriptions[procs[p].prescription] = Dispensed(@)]
    /\ procs' = [procs EXCEPT ![p] =
           [pc |-> "done", op |-> "dispense", ok |-> TRUE, ret |-> 200,
            paid |-> @.paid, visit |-> @.visit, prescription |-> @.prescription]]
    /\ UNCHANGED <<now, steps, invoices, payments, last,
                   dispensings, batches, stockMovements>>

\* A visit is opened, medicines are prescribed and paid, and two pharmacists
\* send dispense requests that run concurrently.
NextPharmacists ==
    \/ \E p \in Patients : CreateVisit(p, TRUE, 0)
    \/ \E v \in DOMAIN visits :
          /\ Len(visits[v].prescriptions) < MaxRacedPrescriptions
          /\ AddPrescription(v, TRUE, MedicationPrice)
    \/ \E id \in 1..MaxInvoices, i \in 1..MaxOrderItems : PayOrderItems(id, <<i>>)
    \/ \E p \in Procs, v \in 1..MaxVisits, i \in 1..MaxRacedPrescriptions :
          \E quantity \in 1..MaxRacedQuantity : DispenseLoad(p, v, i, quantity)
    \/ \E p \in Procs : DispenseCreate(p)
    \/ \E p \in Procs : DispenseFind(p)
    \/ \E p \in Procs : DispenseDeduct(p)
    \/ \E p \in Procs : DispenseSave(p)

SpecPharmacists == Init /\ [][NextPharmacists]_vars

(* Settlement applied to a document in memory *)

\* Ledgers of a document about to be settled: empty, a full or a part
\* payment, a payment refunded in full or in part.
SettlementLedgers ==
    LET Entry(amount) == [amount |-> amount, method |-> "cash", itemIndices |-> <<>>]
    IN  { <<>>, <<Entry(2)>>, <<Entry(1)>>,
          <<Entry(2), Entry(0 - 2)>>, <<Entry(2), Entry(0 - 1)>> }

\* An invoice document in memory when calculateTotals is called on it: one
\* item of 2, issued at time 0, with the status and paidDate it was stored
\* with and the ledger as the caller left it.
SettlementInvoices ==
    {[NewInvoice([patient |-> 1, visit |-> 0,
                  items |-> <<ServiceItem("lab_test", 2)>>,
                  paymentTerms |-> paymentTerms], 1, 0)
        EXCEPT !.payments = ledger, !.status = status, !.paidDate = paidDate] :
        paymentTerms \in {"immediate", "net_15"}, ledger \in SettlementLedgers,
        status \in {"pending", "partial", "paid", "overdue"},
        paidDate \in {NoDate, 0}}

\* One invoice document, taken from those above.
InitSettlement ==
    /\ now = 0
    /\ steps = 0
    /\ visits = <<>>
    /\ invoices \in {<<inv>> : inv \in SettlementInvoices}
    /\ payments = <<>>
    /\ last = Done("none", 0, TRUE, 0, [dt |-> 0])
    /\ procs = [p \in Procs |-> Idle]
    /\ dispensings = <<>>
    /\ batches = StockedBatches
    /\ stockMovements = <<>>

\* invoice.calculateTotals() on the document, whose last step is
\* _updatePaymentStatus; again says the previous step was the same call with
\* no time passed, was is the status the call found.
Settle(id) ==
    /\ Step
    /\ id \in DOMAIN invoices
    /\ invoices' = [invoices EXCEPT ![id] = CalculateTotals(@, now)]
    /\ last' = Done("settle", id, TRUE, 0,
                    [again |-> last.op = "settle", was |-> invoices[id].status])
    /\ UNCHANGED <<now, visits, payments>>

\* invoice.save() on the document with its items or payments modified: the
\* pre-save hook runs calculateTotals and then checkOverdueStatus.
SaveInvoice(id) ==
    /\ Step
    /\ id \in DOMAIN invoices
    /\ invoices' = [invoices EXCEPT ![id] = PreSave(@, TRUE, now)]
    /\ last' = Done("save", id, TRUE, 0,
                    [again |-> last.op = "save", was |-> invoices[id].status])
    /\ UNCHANGED <<now, visits, payments>>

NextSettlement ==
    \/ Tick
    \/ \E id \in 1..MaxInvoices : Settle(id)
    \/ \E id \in 1..MaxInvoices : SaveInvoice(id)

SpecSettlement == InitSettlement /\ [][NextSettlement]_vars

-----------------------------------------------------------------------------
(* Properties *)

\* C1: in every stored invoice, amountPaid is the sum of the amounts of all
\* ledger entries (refunds are negative entries) and balanceDue is
\* totalAmount minus amountPaid.
C1_LedgerTotals ==
    \A k \in DOMAIN invoices :
        /\ invoices[k].amountPaid = SumAmounts(invoices[k].payments)
        /\ invoices[k].balanceDue = invoices[k].totalAmount - invoices[k].amountPaid

\* A refund was just booked on an invoice whose ledger now holds a payment
\* and a negative entry.
C1_Witness ==
    /\ last.op = "processRefund" /\ last.ok
    /\ \E e \in Range(invoices[last.id].payments) : e.amount < 0
    /\ \E e \in Range(invoices[last.id].payments) : e.amount > 0

\* C2: in every stored invoice, status is paid exactly when balanceDue <= 0
\* and amountPaid > 0.  (PUT /invoices/:id stores the status of its body.)
C2_PaidIff ==
    \A k \in DOMAIN invoices :
        invoices[k].status = "paid"
            <=> (invoices[k].balanceDue <= 0 /\ invoices[k].amountPaid > 0)

\* invoice.payItems(itemIndices, { method: 'cash' }) followed by save(), on a
\* stored invoice.
PayItemsThenSave(inv, itemIndices) ==
    LET r == PayItems(inv, itemIndices, "cash", now)
    IN  [inv |-> PreSave(r.inv, TRUE, now), ret |-> r.ret]

\* C5 (as stated): for two successive payItems calls with index lists A
\* then B on a stored invoice, the second call charges only the items of B
\* still unpaid before it, the ledger amounts the two calls add sum to the
\* totals of the items of A and B (those not paid before the first call),
\* each counted once, and a call whose indices are all paid returns 0 and
\* appends no ledger entry.
C5_ChargesUnionOnce ==
    \A k \in DOMAIN invoices : \A A \in IndexLists, B \in IndexLists :
        LET inv == invoices[k]
            r1 == PayItemsThenSave(inv, A)
            r2 == PayItemsThenSave(r1.inv, B)
            Unpaid(doc, L) == {i \in Range(L) : i \in DOMAIN doc.items /\ ~doc.items[i].paid}
        IN  /\ r2.ret = SumItemTotals(r1.inv.items, Unpaid(r1.inv, B))
            /\ SumAmounts(r2.inv.payments) - SumAmounts(inv.payments)
                   = SumItemTotals(inv.items, Unpaid(inv, A) \cup Unpaid(inv, B))
            /\ Unpaid(r1.inv, B) = {} =>
                   r2.ret = 0 /\ r2.inv.payments = r1.inv.payments

\* C5 (amended): each of the two calls charges exactly the items of its list
\* that were unpaid immediately before it, so no item is charged by both and
\* the ledger amounts the two calls add sum to the totals of the items they
\* marked, each counted once; a call whose indices are all paid returns 0 and
\* appends no ledger entry.
C5_ChargesUnpaidOnce ==
    \A k \in DOMAIN invoices : \A A \in IndexLists, B \in IndexLists :
        LET inv == invoices[k]
            r1 == PayItemsThenSave(inv, A)
            r2 == PayItemsThenSave(r1.inv, B)
            Unpaid(doc, L) == {i \in Range(L) : i \in DOMAIN doc.items /\ ~doc.items[i].paid}
        IN  /\ r1.ret = SumItemTotals(inv.items, Unpaid(inv, A))
            /\ r2.ret = SumItemTotals(r1.inv.items, Unpaid(r1.inv, B))
            /\ Unpaid(inv, A) \cap Unpaid(r1.inv, B) = {}
            /\ SumAmounts(r2.inv.payments) - SumAmounts(inv.payments)
                   = SumItemTotals(inv.items, Unpaid(inv, A) \cup Unpaid(r1.inv, B))
            /\ \A i \in Unpaid(inv, A) \cup Unpaid(r1.inv, B) : r2.inv.items[i].paid
            /\ Unpaid(r1.inv, B) = {} =>
                   r2.ret = 0 /\ r2.inv.payments = r1.inv.payments

\* A second pay-items request was just answered whose list repeats an item
\* the first request paid: it charged the other item only.
C5_Witness ==
    /\ last.op = "payItems" /\ last.ok /\ last.ret > 0
    /\ Len(invoices[last.id].payments) = 2
    /\ \E i \in Range(last.arg.itemIndices) :
          /\ i \in DOMAIN invoices[last.id].items
          /\ invoices[last.id].items[i].paymentId = 1
          /\ i \notin last.arg.marked
    /\ \E j \in last.arg.marked : invoices[last.id].items[j].paymentId = 2

C8_PartialRefund ==
    [][ LET pid == last'.arg.payment
            r == last'.arg.amount
            inv == invoices[last'.id]
            after == invoices'[last'.id]
        IN  (/\ last'.op = "processRefund"
             /\ PaymentAcceptsRefund(payments[pid], r)
             /\ inv.status = "paid" /\ inv.balanceDue = 0
             /\ r < inv.amountPaid)
            => /\ Len(after.payments) = Len(inv.payments) + 1
               /\ after.payments[Len(after.payments)].amount = 0 - r
               /\ after.amountPaid = inv.amountPaid - r
               /\ after.balanceDue = r
               /\ after.status = "partial"
               /\ \A i \in DOMAIN inv.items : inv.items[i].paid => after.items[i].paid
      ]_vars

\* C10: a processPayment call whose amount exceeds the invoice's balanceDue
\* fails and leaves the invoice, the Payment collection and the visits as
\* they were.
C10_OverpaymentRejected ==
    [][ (/\ last'.op = "processPayment"
         /\ last'.arg.amount > invoices[last'.id].balanceDue)
        => /\ ~last'.ok
           /\ UNCHANGED <<invoices, payments, visits>> ]_vars

\* processPayment just rejected an amount above the balance of an invoice
\* that is partly paid.
C10_Witness ==
    /\ last.op = "processPayment" /\ ~last.ok
    /\ last.arg.amount > invoices[last.id].balanceDue
    /\ last.arg.amount <= invoices[last.id].totalAmount
    /\ invoices[last.id].status = "partial"

\* C3: concurrent createInvoice calls for the same visit never leave more
\* than one invoice referencing the visit, and once a caller of createInvoice
\* has been answered with an invoice exactly one invoice references that
\* invoice's visit.
C3_OneInvoicePerVisit ==
    /\ \A v \in DOMAIN visits : Cardinality(InvoicesOfVisit(invoices, v)) <= 1
    /\ \A p \in Procs :
          (procs[p].pc = "done" /\ procs[p].op = "createInvoice" /\ procs[p].ok)
          => /\ procs[p].ret \in DOMAIN invoices
             /\ Cardinality(InvoicesOfVisit(invoices, invoices[procs[p].ret].visit)) = 1

\* Two createInvoice calls for one visit raced past the lookup: one inserted
\* the invoice, the insert of the other was rejected.
C3_Witness ==
    /\ \A p \in Procs : procs[p].pc = "done" /\ procs[p].op = "createInvoice"
    /\ \E p, q \in Procs :
          /\ procs[p].ok /\ ~procs[q].ok
          /\ invoices[procs[p].ret].visit \in DOMAIN visits
          /\ Cardinality(InvoicesOfVisit(invoices, invoices[procs[p].ret].visit)) = 1

\* C4: a createInvoice call whose insert is rejected because another caller's
\* invoice for the visit is already stored is answered with that invoice.
C4_LoserGetsWinner ==
    [][ \A p \in Procs :
          (/\ procs[p].pc = "createInvoice:save"
           /\ procs'[p] # procs[p]
           /\ InvoicesOfVisit(invoices, procs[p].doc.visit) # {})
          => /\ procs'[p].pc = "done"
             /\ procs'[p].ok
             /\ procs'[p].ret \in InvoicesOfVisit(invoices, procs[p].doc.visit) ]_vars

\* C9: when no request is in flight, every invoice's ledger holds the entries
\* of all payments answered with success, and amountPaid, balanceDue and
\* status follow from that ledger.
C9_NoPaymentDropped ==
    (\A p \in Procs : Free(p))
    => /\ \A id \in DOMAIN invoices :
             LET inv == invoices[id]
             IN  /\ inv.amountPaid = SumAmounts(inv.payments)
                 /\ inv.balanceDue = inv.totalAmount - inv.amountPaid
                 /\ inv.status = "paid" <=> (inv.balanceDue <= 0 /\ inv.amountPaid > 0)
       /\ SumField(procs, "paid")
            = SumField([id \in DOMAIN invoices |->
                  [paid |-> SumAmounts(SelectSeq(invoices[id].payments,
                                LAMBDA e : e.method # "insurance"))]], "paid")

\* C11: once a stored invoice's status is cancelled, it stays cancelled in
\* every later state, and a processPayment, pay-items, addItemsToInvoice or
\* processRefund on it is rejected.  (No handler looks at the status; only
\* the PUT route refuses, and only paid invoices.)
C11_CancelledTerminal ==
    [][ \A k \in DOMAIN invoices :
          invoices[k].status = "cancelled"
          => /\ invoices'[k].status = "cancelled"
             /\ (/\ last'.id = k
                 /\ last'.op \in {"processPayment", "payItems", "processRefund"})
                => ~last'.ok
             /\ (last'.id = k /\ last'.op = "addLabOrder") => ~last'.arg.billed ]_vars

\* C12: when the card or online gateway answers failure to a processPayment
\* call, no ledger entry is appended, no item is marked paid, the invoice's
\* amountPaid, balanceDue and status are unchanged, and the visit is not
\* advanced.
C12_GatewayFailureAborts ==
    [][ (/\ last'.op = "processPayment"
         /\ last'.arg.method \in {"credit_card", "debit_card", "online"}
         /\ ~last'.arg.gateway)
        => LET inv == invoices[last'.id]
               after == invoices'[last'.id]
           IN  /\ after.payments = inv.payments
               /\ \A i \in DOMAIN inv.items : after.items[i].paid = inv.items[i].paid
               /\ after.amountPaid = inv.amountPaid
               /\ after.balanceDue = inv.balanceDue
               /\ after.status = inv.status
               /\ visits' = visits ]_vars

\* An online payment of the consultation fee was just answered with a failed
\* Payment record: the amount was within the balance, the consultation item
\* is still unpaid and the visit still awaits payment.
C12_Witness ==
    /\ last.op = "processPayment" /\ last.ok
    /\ last.arg.method = "online" /\ ~last.arg.gateway
    /\ payments[last.ret].status = "failed"
    /\ LET inv == invoices[last.id]
       IN  /\ last.arg.amount <= inv.balanceDue
           /\ inv.payments = <<>>
           /\ inv.items[1].type = "consultation" /\ ~inv.items[1].paid
           /\ inv.visit \in DOMAIN visits
           /\ visits[inv.visit].status = "Pending Payment"

\* C13: when notification dispatch, the global payment mirror or electronic
\* claim forwarding fails after createInvoice, processPayment or
\* processInsuranceClaim persisted its invoice mutation, the operation still
\* completes without raising to its caller, and the persisted mutation and
\* the visit update that follows it are kept.  (Only the mirror's failure is
\* caught; a notification or forwarding failure is thrown to the caller, and
\* in processPayment it is thrown before the visit update.)
C13_SideEffectFailureSuppressed ==
    [][ (/\ last'.op \in {"createInvoice", "processPayment", "processInsuranceClaim"}
         /\ last'.arg.failing # {}
         /\ invoices' # invoices)
        => /\ last'.ok
           /\ (last'.op = "createInvoice" /\ last'.arg.visit # 0)
              => visits'[last'.arg.visit].invoice = last'.id
           /\ (last'.op = "processPayment" /\ invoices'[last'.id].visit # 0)
              => visits' = CheckAndUpdateVisitStatus(visits, invoices'[last'.id])
      ]_vars

\* C14: a createInvoice call for a visit that already has a stored invoice
\* returns that invoice and changes nothing: no invoice is added, the stored
\* invoice (items, ledger, totals) is unchanged, the visit and the Payment
\* collection are unchanged, and no audit entry or notification is emitted.
C14_DuplicateReturnsExisting ==
    [][ (/\ last'.op = "createInvoice"
         /\ last'.arg.visit # 0
         /\ \E k \in DOMAIN invoices : invoices[k].visit = last'.arg.visit)
        => /\ last'.ok
           /\ last'.id \in DOMAIN invoices
           /\ invoices[last'.id].visit = last'.arg.visit
           /\ ~last'.arg.created
           /\ invoices' = invoices
           /\ visits' = visits
           /\ payments' = payments
           /\ last'.arg.emitted = {} ]_vars

\* A createInvoice call was just answered with the invoice the visit already
\* had, on which a payment had been booked and whose visit had moved on.
C14_Witness ==
    /\ last.op = "createInvoice" /\ last.ok /\ ~last.arg.created
    /\ last.arg.visit \in DOMAIN visits
    /\ last.id \in DOMAIN invoices
    /\ invoices[last.id].visit = last.arg.visit
    /\ invoices[last.id].payments # <<>>
    /\ visits[last.arg.visit].status = "In Queue"
    /\ ~HasInsurance(last.arg.patient)

C16_FullRefundPending ==
    [][ (/\ last'.op = "processRefund" /\ last'.ok
         /\ invoices[last'.id].status = "paid"
         /\ invoices[last'.id].amountPaid > 0
         /\ invoices'[last'.id].amountPaid = 0)
        => /\ invoices'[last'.id].status = "pending"
           /\ invoices'[last'.id].paidDate = NoDate ]_vars

\* C16 (amended): after such a refund paidDate is cleared and the stored
\* status is pending when the dueDate has not passed at the save, overdue when
\* it has (the pre-save hook's overdue check runs on the reverted status).
C16_FullRefundPendingOrOverdue ==
    [][ (/\ last'.op = "processRefund" /\ last'.ok
         /\ invoices[last'.id].status = "paid"
         /\ invoices[last'.id].amountPaid > 0
         /\ invoices'[last'.id].amountPaid = 0)
        => /\ invoices'[last'.id].status
                 = IF invoices[last'.id].dueDate < now THEN "overdue" ELSE "pending"
           /\ invoices'[last'.id].paidDate = NoDate ]_vars

\* A refund of the whole payment was just booked on an invoice that had been
\* paid in full and whose due date has passed: it is stored overdue, with
\* amountPaid 0 and no paidDate.
C16_Witness ==
    /\ last.op = "processRefund" /\ last.ok
    /\ LET inv == invoices[last.id]
       IN  /\ inv.amountPaid = 0
           /\ inv.totalAmount > 0
           /\ Len(inv.payments) = 2
           /\ inv.payments[1].amount = inv.totalAmount
           /\ inv.payments[2].amount = 0 - inv.totalAmount
           /\ inv.paidDate = NoDate
           /\ inv.dueDate < now
           /\ inv.status = "overdue"

\* C17: once the stored status of an invoice is overdue, it is never pending
\* again, whatever payments, refunds, item additions and overdue sweeps
\* follow.
C17_OverdueNeverPending ==
    \A k \in 1..MaxInvoices :
        []((k \in DOMAIN invoices /\ invoices[k].status = "overdue")
            => [](k \in DOMAIN invoices => invoices[k].status # "pending"))

\* An invoice stored as overdue was paid in full after its due date and the
\* payment was then refunded in full: settlement reverted it to pending and
\* the same save stored it as overdue.
C17_Witness ==
    /\ last.op = "processRefund" /\ last.ok
    /\ LET inv == invoices[last.id]
       IN  /\ inv.status = "overdue"
           /\ inv.amountPaid = 0
           /\ inv.balanceDue = inv.totalAmount
           /\ ~HasInsurance(inv.patient)
           /\ \E i \in DOMAIN inv.items :
                 inv.items[i].paid /\ inv.items[i].paidAt > inv.dueDate

\* C18: a billing event moves a visit to In Queue only from Pending Payment:
\* invoice creation, payment processing and payment confirmation never move
\* a visit that is In-Progress or completed back to In Queue or Pending
\* Payment.  (The visit update of createInvoice and the payment-status route
\* both write the status without reading it.)
C18_NoBackwardVisitStatus ==
    [][ \A v \in DOMAIN visits :
          last'.op \in {"createInvoice", "createVisit", "processPayment", "payItems",
                        "confirmPayment"}
          => /\ (visits'[v].status = "In Queue" /\ visits[v].status # "In Queue")
                => visits[v].status = "Pending Payment"
             /\ visits[v].status \in {"In-Progress", "completed"}
                => visits'[v].status \notin {"In Queue", "Pending Payment"} ]_vars

\* C19: a successful processPayment on an uninsured visit's invoice advances
\* as many of the visit's lab orders, radiology orders and prescriptions from
\* Pending Payment to Pending as it marked lab_test, imaging and medication
\* items paid.  (processPayment re-derives the visit's own status only.)
C19_ProcessPaymentAdvancesOrders ==
    [][ LET id == last'.id
            inv == invoices[id]
            v == inv.visit
            marked == {i \in DOMAIN inv.items : ~inv.items[i].paid /\ invoices'[id].items[i].paid}
            paidItems == SelectSeq(inv.items,
                             LAMBDA it : \E i \in marked : inv.items[i] = it /\ ~it.paid)
            due == UpdateVisitOrderStatuses(visits[v], paidItems)
        IN  (/\ last'.op = "processPayment" /\ last'.ok
             /\ v \in DOMAIN visits
             /\ ~HasInsurance(visits[v].patient)
             /\ marked # {})
            => /\ visits'[v].labOrders = due.labOrders
               /\ visits'[v].radiologyOrders = due.radiologyOrders
               /\ visits'[v].prescriptions = due.prescriptions ]_vars

\* The persisted invoice of the uninsured visit v has its consultation item
\* paid and the visit is still in Pending Payment.
PaidButPending(v) ==
    /\ v \in DOMAIN visits
    /\ ~HasInsurance(visits[v].patient)
    /\ visits[v].status = "Pending Payment"
    /\ \E k \in DOMAIN invoices :
          /\ invoices[k].visit = v
          /\ \E i \in DOMAIN invoices[k].items :
                /\ invoices[k].items[i].type = "consultation"
                /\ invoices[k].items[i].paid
                /\ \A j \in 1..(i - 1) : invoices[k].items[j].type # "consultation"

C21_PaidItemAdvancesItsOrder ==
    [][ LET id == last'.id
            inv == invoices[id]
            v == inv.visit
            orders == visits[v].labOrders
        IN  (last'.op = "payItems" /\ last'.ok /\ v \in DOMAIN visits) =>
            \A i \in DOMAIN inv.items : \A o \in DOMAIN orders :
              (/\ last'.arg.marked = {i}
               /\ ~HasInsurance(visits[v].patient)
               /\ inv.items[i].type = "lab_test"
               /\ orders[o].testName = inv.items[i].description
               /\ Cardinality({q \in DOMAIN orders :
                                  orders[q].status = "Pending Payment"}) >= 2
               /\ \A q \in DOMAIN orders :
                     q # o => orders[q].testName # orders[o].testName)
              => /\ visits'[v].labOrders[o].status = "Pending"
                 /\ \A q \in DOMAIN orders :
                       q # o => visits'[v].labOrders[q] = orders[q] ]_vars

\* C22: an invoice's items list only grows by appending: whatever operation
\* mutates the invoice, no item is removed, and the item at index i keeps its
\* type, description, quantity and unitPrice.  (PUT /invoices/:id assigns the
\* body's items array over the stored one.)
C22_ItemsAppendOnly ==
    [][ \A k \in DOMAIN invoices :
          /\ k \in DOMAIN invoices'
          /\ Len(invoices'[k].items) >= Len(invoices[k].items)
          /\ \A i \in DOMAIN invoices[k].items :
                /\ invoices'[k].items[i].type = invoices[k].items[i].type
                /\ invoices'[k].items[i].description = invoices[k].items[i].description
                /\ invoices'[k].items[i].quantity = invoices[k].items[i].quantity
                /\ invoices'[k].items[i].unitPrice = invoices[k].items[i].unitPrice ]_vars

C24_LedgerMatchesPayment ==
    [][ LET id == last'.id
            pid == last'.ret
        IN  (/\ last'.op = "processPayment" /\ last'.ok
             /\ pid \in DOMAIN payments'
             /\ payments'[pid].status = "completed")
            => /\ Len(invoices'[id].payments) = Len(invoices[id].payments) + 1
               /\ LET entry == invoices'[id].payments[Len(invoices'[id].payments)]
                  IN  /\ entry.amount = payments'[pid].amount
                      /\ entry.method = payments'[pid].method ]_vars

\* C25: a createInvoice call whose visit has no invoice persists an invoice
\* whose invoiceNumber differs from every other persisted one and is one more
\* than the highest used, also when a call for another visit runs at the same
\* time.  (Both calls read the same highest number; the second insert is
\* rejected by the unique index and the call throws.)
C25_InvoiceNumberAssigned ==
    [][ \A p \in Procs :
          (/\ procs[p].pc = "createInvoice:save"
           /\ procs'[p].pc # "createInvoice:save"
           /\ ValidInvoice(procs[p].doc)
           /\ InvoicesOfVisit(invoices, procs[p].data.visit) = {})
          => /\ Len(invoices') = Len(invoices) + 1
             /\ LET n == invoices'[Len(invoices')].invoiceNumber
                IN  /\ \A k \in DOMAIN invoices : invoices[k].invoiceNumber # n
                    /\ n = GenerateInvoiceNumber(invoices) ]_vars

\* C26: recalculating an invoice's totals again on unchanged items and
\* payments yields the item totals, subtotal, totalDiscount, totalTax,
\* totalAmount, amountPaid and balanceDue of the first recalculation.
C26_RecalculationIdempotent ==
    [][ (last'.op = "calculateTotals" /\ last'.arg.again)
        => LET once == invoices[last'.id]
               twice == invoices'[last'.id]
           IN  /\ \A i \in DOMAIN once.items : twice.items[i].total = once.items[i].total
               /\ twice.subtotal = once.subtotal
               /\ twice.totalDiscount = once.totalDiscount
               /\ twice.totalTax = once.totalTax
               /\ twice.totalAmount = once.totalAmount
               /\ twice.amountPaid = once.amountPaid
               /\ twice.balanceDue = once.balanceDue ]_vars

\* An invoice with a percentage discount, a percentage tax and a refunded
\* payment was recalculated twice in succession.
C26_Witness ==
    /\ last.op = "calculateTotals" /\ last.arg.again
    /\ LET inv == invoices[last.id]
       IN  /\ \E i \in DOMAIN inv.items :
                 /\ inv.items[i].discountType = "percentage" /\ inv.items[i].discount > 0
                 /\ inv.items[i].taxType = "percentage" /\ inv.items[i].tax > 0
                 /\ inv.items[i].total = 198
           /\ inv.totalDiscount = 20 /\ inv.totalTax = 18
           /\ inv.amountPaid = 50
           /\ inv.balanceDue = inv.totalAmount - 50

\* C27: a patient has at most one active visit in every reachable state, and
\* the end-visit request never makes a visit that was ended active again.
\* (The route inverts isActive, so a second request reactivates the visit.)
C27_OneActiveVisit ==
    /\ [](\A v, w \in DOMAIN visits :
            (v # w /\ visits[v].patient = visits[w].patient)
            => ~(visits[v].isActive /\ visits[w].isActive))
    /\ [][ \A v \in DOMAIN visits :
             (last'.op = "endVisitRoute" /\ ~visits[v].isActive)
             => ~visits'[v].isActive ]_vars

\* What C28 asks of one order array, before and after the projector ran with
\* count paid items of the array's type: min(count, number in Pending
\* Payment) orders moved from Pending Payment to Pending, none of them older
\* than an order left in Pending Payment, and nothing else changed.
CountMatched(before, after, count) ==
    LET pending == {i \in DOMAIN before : before[i].status = "Pending Payment"}
        moved == {i \in pending : after[i].status = "Pending"}
    IN  /\ DOMAIN after = DOMAIN before
        /\ Cardinality(moved) = Min(count, Cardinality(pending))
        /\ \A i \in moved : \A j \in pending \ moved :
              before[i].createdAt >= before[j].createdAt
        /\ \A i \in DOMAIN before :
              /\ i \notin moved => after[i] = before[i]
              /\ i \in moved => after[i] = [before[i] EXCEPT !.status = "Pending"]

C29_ProjectorGetsChangedItems ==
    [][ LET id == last'.id
            inv == invoices[id]
            changed == {i \in DOMAIN inv.items :
                           ~inv.items[i].paid /\ invoices'[id].items[i].paid}
        IN  (last'.op = "payItems" /\ last'.ok)
            => Range(ValidIndices(inv, last'.arg.itemIndices)) = changed ]_vars

\* The total of the unpaid items among the first n.
UnpaidTotal(items, n) ==
    SumTotals(SelectSeq(SubSeq(items, 1, n), LAMBDA it : ~it.paid))

\* The unpaid items whose cumulative total, taken in index order, fits
\* within amount.
Fitting(items, amount) ==
    {i \in DOMAIN items : ~items[i].paid /\ UnpaidTotal(items, i) <= amount}

\* The unpaid items whose cumulative total fits within amount and that are
\* reached before the amount is used up.
Consumed(items, amount) ==
    {i \in Fitting(items, amount) : UnpaidTotal(items, i - 1) < amount}

\* The indices of a set in ascending order.
Ascending(set) ==
    SelectSeq([i \in 1..MaxLegacyItems |-> i], LAMBDA i : i \in set)

\* C30: addPayment(amount) marks paid exactly the unpaid items whose
\* cumulative total, in index order, fits within amount, and appends one
\* ledger entry of the full amount whose itemIndices are the indices it
\* marked paid.
C30_GreedyMarking ==
    [][ last'.op = "addPayment"
        => LET before == invoices[last'.id]
               after == invoices'[last'.id]
               marked == {i \in DOMAIN before.items :
                             ~before.items[i].paid /\ after.items[i].paid}
               entry == after.payments[Len(after.payments)]
           IN  /\ marked = Fitting(before.items, last'.arg.amount)
               /\ Len(after.payments) = Len(before.payments) + 1
               /\ entry.amount = last'.arg.amount
               /\ entry.itemIndices = Ascending(marked) ]_vars

\* C30 (amended): the ledger entry's itemIndices are the unpaid items whose
\* cumulative total fits within amount and that are reached before the amount
\* is used up; these are marked paid, and when the payment leaves the invoice
\* fully paid settlement marks every other unpaid item paid as well, without
\* recording it in the entry.
C30_GreedyMarkingThenSettlement ==
    [][ last'.op = "addPayment"
        => LET before == invoices[last'.id]
               after == invoices'[last'.id]
               marked == {i \in DOMAIN before.items :
                             ~before.items[i].paid /\ after.items[i].paid}
               entry == after.payments[Len(after.payments)]
               consumed == Consumed(before.items, last'.arg.amount)
           IN  /\ Len(after.payments) = Len(before.payments) + 1
               /\ entry.amount = last'.arg.amount
               /\ entry.itemIndices = Ascending(consumed)
               /\ marked = IF after.balanceDue <= 0 /\ after.amountPaid > 0
                           THEN {i \in DOMAIN before.items : ~before.items[i].paid}
                           ELSE consumed ]_vars

\* addPayment just ran on an invoice whose first item was paid already: it
\* marked the second item, which the amount covered, left the third, which
\* the rest did not cover, and recorded the second item alone.
C30_Witness ==
    /\ last.op = "addPayment"
    /\ LET before == last.arg.before
           after == invoices[last.id]
       IN  /\ Len(before.items) = 3
           /\ before.items[1].paid /\ ~before.items[2].paid /\ ~before.items[3].paid
           /\ before.items[2].total = 2 /\ before.items[3].total = 3
           /\ last.arg.amount = 4
           /\ after.items[2].paid /\ ~after.items[3].paid
           /\ after.payments[Len(after.payments)].itemIndices = <<2>>
           /\ after.payments[Len(after.payments)].amount = 4
           /\ after.status = "partial"

-----------------------------------------------------------------------------
(* C31: what one payItems call records and stamps *)

\* C31: a payItems call that charges something records in its ledger entry's
\* itemIndices exactly the positions whose paid flag it turned on, stamps its
\* payment id on those items and on no other, and leaves every item that was
\* paid before the call as it was (paid flag, paidAt and paymentId).
C31_PayItemsRecordsMarked ==
    \A k \in DOMAIN invoices : \A L \in IndexLists :
        LET inv == invoices[k]
            r == PayItems(inv, L, "cash", now)
            paymentId == Len(inv.payments) + 1
            marked == {i \in DOMAIN inv.items : ~inv.items[i].paid /\ r.inv.items[i].paid}
        IN  r.ret > 0 =>
              /\ Range(r.inv.payments[Len(r.inv.payments)].itemIndices) = marked
              /\ \A i \in DOMAIN inv.items :
                    (r.inv.items[i].paymentId = paymentId) <=> (i \in marked)
              /\ \A i \in DOMAIN inv.items :
                    inv.items[i].paid => r.inv.items[i] = inv.items[i]

\* C31 (amended): called, as the pay-items route calls it, with positions
\* that are in range and unpaid, a payItems call that charges something
\* records exactly these positions in its ledger entry, marks them paid and
\* stamps its payment id on them and on no other item; items paid before the
\* call are left as they were; and the other unpaid items are left as they
\* were unless the call leaves the invoice paid, when settlement marks them
\* paid without a payment id and without recording them.
C31_PayItemsRecordsListed ==
    \A k \in DOMAIN invoices : \A L \in IndexLists :
        LET inv == invoices[k]
            r == PayItems(inv, L, "cash", now)
            paymentId == Len(inv.payments) + 1
        IN  (ValidIndices(inv, L) = L /\ r.ret > 0) =>
              /\ Len(r.inv.payments) = Len(inv.payments) + 1
              /\ r.inv.payments[Len(r.inv.payments)].itemIndices = L
              /\ \A i \in Range(L) :
                    r.inv.items[i] = [inv.items[i] EXCEPT !.paid = TRUE,
                                                          !.paidAt = now,
                                                          !.paymentId = paymentId]
              /\ \A i \in DOMAIN inv.items \ Range(L) :
                    r.inv.items[i] =
                        IF ~inv.items[i].paid /\ r.inv.status = "paid"
                        THEN [inv.items[i] EXCEPT !.paid = TRUE, !.paidAt = now]
                        ELSE inv.items[i]

\* A pay-items request was just answered that charged the second item of an
\* invoice whose first item an earlier call had paid: the entry lists the
\* second item alone and the first item keeps the earlier payment id.
C31_Witness ==
    /\ last.op = "payItems" /\ last.ok /\ last.ret > 0
    /\ last.arg.itemIndices = <<2>>
    /\ LET inv == invoices[last.id]
       IN  /\ Len(inv.items) = 2 /\ Len(inv.payments) = 2
           /\ inv.payments[2].itemIndices = <<2>>
           /\ inv.items[2].paid /\ inv.items[2].paymentId = 2
           /\ inv.items[1].paid /\ inv.items[1].paymentId = 1

-----------------------------------------------------------------------------
(* C32: items added to an invoice that insurance settled *)

\* An invoice as the insurance block of createInvoice and the insured
\* addItemsToInvoice calls after it leave it: paid, with a ledger of
\* insurance entries only.
InsuranceSettled(inv) ==
    /\ inv.status = "paid"
    /\ inv.payments # <<>>
    /\ \A k \in DOMAIN inv.payments : inv.payments[k].method = "insurance"

\* C32: every addItemsToInvoice call made with insurance coverage on an
\* invoice that insurance settled at creation (and earlier such calls kept
\* settled) appends the new item marked paid, appends one insurance ledger
\* entry of the new item's total, raises coverageAmount by that total, and
\* leaves the invoice paid with balanceDue 0.
C32_InsuredItemsStaySettled ==
    [][ (/\ last'.op = "addLabOrder"
         /\ last'.arg.billed
         /\ last'.id \in DOMAIN invoices
         /\ HasInsurance(invoices[last'.id].patient)
         /\ InsuranceSettled(invoices[last'.id]))
        => LET before == invoices[last'.id]
               after == invoices'[last'.id]
               n == Len(before.items) + 1
           IN  /\ Len(after.items) = n
               /\ \A i \in DOMAIN before.items : after.items[i] = before.items[i]
               /\ after.items[n].paid /\ after.items[n].paidAt = now
               /\ after.items[n].type = "lab_test"
               /\ after.payments = Append(before.payments,
                                      [amount |-> after.items[n].total,
                                       method |-> "insurance",
                                       itemIndices |-> <<n>>])
               /\ after.coverageAmount = before.coverageAmount + after.items[n].total
               /\ after.totalAmount = before.totalAmount + after.items[n].total
               /\ after.status = "paid"
               /\ after.amountPaid = after.totalAmount
               /\ after.balanceDue = 0 ]_vars

\* The second lab test was just added to the invoice of an insured patient's
\* visit: three paid items, three insurance entries, the coverage amount at
\* the invoice total.
C32_Witness ==
    /\ last.op = "addLabOrder" /\ last.arg.billed
    /\ last.id \in DOMAIN invoices
    /\ LET inv == invoices[last.id]
       IN  /\ HasInsurance(inv.patient)
           /\ Len(inv.items) = 3 /\ Len(inv.payments) = 3
           /\ \A i \in DOMAIN inv.items : inv.items[i].paid
           /\ inv.payments[3] = [amount |-> LabTestFee, method |-> "insurance",
                                 itemIndices |-> <<3>>]
           /\ inv.coverageAmount = ConsultationFee + LabTestFee + LabTestFee
           /\ inv.status = "paid" /\ inv.balanceDue = 0

-----------------------------------------------------------------------------
(* C33: a paid invoice has no unpaid item *)

\* Every item of the invoice is marked paid.
AllItemsPaid(inv) == \A i \in DOMAIN inv.items : inv.items[i].paid

\* C33: an invoice that settlement leaves paid has every item marked paid.
\* Every operation that writes an invoice and runs settlement on it (every
\* one but a PUT /invoices/:id of the status field alone, which saves without
\* recalculating) leaves it so, and so does settlement run on any stored
\* invoice.
C33_PaidInvoiceItemsPaid ==
    /\ [](\A k \in DOMAIN invoices :
             CalculateTotals(invoices[k], now).status = "paid"
                 => AllItemsPaid(CalculateTotals(invoices[k], now)))
    /\ [][ \A k \in DOMAIN invoices' :
             (/\ k \in DOMAIN invoices => invoices'[k] # invoices[k]
              /\ ~(last'.op = "updateInvoice" /\ "items" \notin DOMAIN last'.arg)
              /\ invoices'[k].status = "paid")
             => AllItemsPaid(invoices'[k]) ]_vars

\* A pay-items request for the second item alone was just answered and left
\* the invoice paid: settlement marked the first item, which no payment
\* names.
C33_Witness ==
    /\ last.op = "payItems" /\ last.ok
    /\ last.arg.marked = {2}
    /\ LET inv == invoices[last.id]
       IN  /\ inv.status = "paid"
           /\ Len(inv.items) = 2
           /\ inv.items[1].paid /\ inv.items[1].paymentId = 0
           /\ inv.items[2].paid

-----------------------------------------------------------------------------
(* C34: payments never exceed the invoice total *)

\* C34: after any sequence of processPayment and pay-items requests on an
\* invoice, amountPaid is at most totalAmount and balanceDue is not negative.
C34_NeverOverpaid ==
    \A k \in DOMAIN invoices :
        /\ invoices[k].amountPaid <= invoices[k].totalAmount
        /\ invoices[k].balanceDue >= 0

-----------------------------------------------------------------------------
(* C35: no dispensing before payment *)

\* The Dispensing documents and StockMovement documents made for
\* prescription i of visit v.
DispensedFor(docs, v, i) ==
    {k \in DOMAIN docs : docs[k].visit = v /\ docs[k].prescription = i}

\* C35: a prescription in Pending Payment leaves that status only by a
\* payment that advances it to Pending; while it is in Pending Payment no
\* dispense, mark-unavailable or return-to-doctor request changes it or has a
\* dispensing record or a stock movement made for it; and a prescription
\* becomes Dispensed only from Pending.
C35_NoDispenseBeforePayment ==
    /\ [](\A v \in DOMAIN visits : \A i \in DOMAIN visits[v].prescriptions :
             visits[v].prescriptions[i].status = "Pending Payment"
                 => /\ DispensedFor(dispensings, v, i) = {}
                    /\ DispensedFor(stockMovements, v, i) = {})
    /\ [][ \A v \in DOMAIN visits : \A i \in DOMAIN visits[v].prescriptions :
             LET rx == visits[v].prescriptions[i]
                 rx1 == visits'[v].prescriptions[i]
             IN  /\ (rx.status = "Pending Payment" /\ rx1 # rx)
                        => /\ last'.op = "payItems" /\ last'.ok
                           /\ rx1 = [rx EXCEPT !.status = "Pending"]
                 /\ rx.status = "Pending Payment"
                        => /\ DispensedFor(dispensings', v, i) = {}
                           /\ DispensedFor(stockMovements', v, i) = {}
                 /\ (rx1.status = "Dispensed" /\ rx.status # "Dispensed")
                        => rx.status = "Pending" ]_vars

\* An uninsured patient's prescription was just dispensed: its invoice line
\* is paid, one dispensing record was made for it and stock was taken.
C35_Witness ==
    /\ last.op = "dispense" /\ last.ok
    /\ LET v == last.arg.visit
           i == last.arg.prescription
       IN  /\ ~HasInsurance(visits[v].patient)
           /\ visits[v].prescriptions[i].status = "Dispensed"
           /\ Cardinality(DispensedFor(dispensings, v, i)) = 1
           /\ DispensedFor(stockMovements, v, i) # {}
           /\ \E k \in DOMAIN invoices[visits[v].invoice].items :
                 /\ invoices[visits[v].invoice].items[k].type = "medication"
                 /\ invoices[visits[v].invoice].items[k].paid

-----------------------------------------------------------------------------
(* C36: no laboratory or radiology work before payment *)

\* The order was worked on: it is In Progress or Completed, or results or
\* findings are recorded on it.
WorkedOn(order) ==
    \/ order.status \in {"In Progress", "Completed"}
    \/ "results" \in DOMAIN order
    \/ "findings" \in DOMAIN order

\* C36: no request to the lab-test or radiology routes leaves a lab or
\* radiology order that was in Pending Payment In Progress or Completed, or
\* with results or findings recorded.
C36_NoWorkBeforePayment ==
    [][ last'.op \in {"labResults", "labStatus", "radiologyUpdate", "radiologyStatus"}
        => \A v \in DOMAIN visits :
              /\ \A i \in DOMAIN visits[v].labOrders :
                    visits[v].labOrders[i].status = "Pending Payment"
                        => ~WorkedOn(visits'[v].labOrders[i])
              /\ \A i \in DOMAIN visits[v].radiologyOrders :
                    visits[v].radiologyOrders[i].status = "Pending Payment"
                        => ~WorkedOn(visits'[v].radiologyOrders[i]) ]_vars

-----------------------------------------------------------------------------
(* C37: a prescription is dispensed once *)

\* C37: whatever the interleaving of the dispense requests, at most one
\* dispensing record exists for a prescription, no batch was deducted twice
\* for it, and no two requests for it were both answered with success.
C37_DispensedAtMostOnce ==
    \A v \in DOMAIN visits : \A i \in DOMAIN visits[v].prescriptions :
        /\ Cardinality(DispensedFor(dispensings, v, i)) <= 1
        /\ \A k, l \in DispensedFor(stockMovements, v, i) :
              stockMovements[k].batch = stockMovements[l].batch => k = l
        /\ \A p, q \in Procs :
              (/\ procs[p].pc = "done" /\ procs[p].op = "dispense" /\ procs[p].ok
               /\ procs[q].pc = "done" /\ procs[q].op = "dispense" /\ procs[q].ok
               /\ procs[p].visit = v /\ procs[p].prescription = i
               /\ procs[q].visit = v /\ procs[q].prescription = i)
              => p = q

\* C38 (as stated): calculateTotals run twice in succession at the same time
\* on an unchanged document leaves status and paidDate as the first run left
\* them.
C38_SettleTwiceSame ==
    [][ (last'.op = "settle" /\ last'.arg.again)
        => LET once == invoices[last'.id]
               twice == invoices'[last'.id]
           IN  /\ twice.status = once.status
               /\ twice.paidDate = once.paidDate ]_vars

\* C38 (amended): calculateTotals run twice in succession at the same time
\* leaves paidDate as the first run left it, and the status too unless the
\* first run left a pending invoice with nothing paid after its dueDate (it
\* reverted a paid one), which the second run makes overdue; a save, which
\* runs the overdue check after calculateTotals, run twice in succession
\* leaves both as the first save left them.
C38_SettleTwiceSameOrOverdue ==
    [][ /\ (last'.op = "settle" /\ last'.arg.again)
           => LET once == invoices[last'.id]
                  twice == invoices'[last'.id]
              IN  /\ twice.paidDate = once.paidDate
                  /\ IF once.status = "pending" /\ once.amountPaid = 0
                           /\ once.dueDate < now
                     THEN twice.status = "overdue" /\ last.arg.was = "paid"
                     ELSE twice.status = once.status
        /\ (last'.op = "save" /\ last'.arg.again)
           => LET once == invoices[last'.id]
                  twice == invoices'[last'.id]
              IN  /\ twice.status = once.status
                  /\ twice.paidDate = once.paidDate ]_vars

\* A paid invoice whose payment was refunded in full was saved twice in
\* succession after its dueDate: the first save left it overdue with paidDate
\* cleared and the second found it so.
C38_Witness ==
    /\ last.op = "save" /\ last.arg.again /\ last.arg.was = "overdue"
    /\ LET inv == invoices[last.id]
       IN  /\ inv.status = "overdue"
           /\ inv.paidDate = NoDate
           /\ inv.dueDate < now
           /\ Len(inv.payments) = 2 /\ inv.amountPaid = 0

====
